---- MODULE Spec2Model ----
(***************************************************************************)
(* The websocket relay of the tarot-advisor proxy (Handler in the handler  *)
(* file with closeConnection): handleConnect, handleDisconnect and         *)
(* handleSendMessage, the producer goroutine running callAnthropicAPI, the *)
(* three channels between them, and the two DynamoDB tables the handlers   *)
(* touch (WS_CONNECTIONS and USERS).  After the relay come the Lambdas of  *)
(* the API that share its tables: getUser, verifyOTP and the payment       *)
(* verification, each with a specification of its own, and the functions   *)
(* without state.                                                          *)
(*                                                                         *)
(* Every Lambda invocation is a process; the steps of a handler are cut at *)
(* its accesses to shared state (a table, the websocket connection, a      *)
(* channel).  Calls that can return an error take their outcome from a     *)
(* nondeterministic choice.                                                *)
(***************************************************************************)
EXTENDS Integers, Sequences, FiniteSets, TLC

\* ------------------------------------------------------------------ bounds
MaxLines  == 4      \* lines all upstream response bodies deliver together
MaxQuota  == 1      \* largest remaining_requests a user starts with
Overdraft == 1      \* how far below 0 a user's remaining_requests may start
MaxSpins  == 1      \* receives of nil from the closed errorChan that are counted

\* ------------------------------------------------------------------ domains
ConnIds    == {"c1"}             \* the connection of a single relay
PairIds    == {"c1", "c2"}       \* two connections of one identity
Identities == {"u1", "u2"}
NoItem     == "no_item"          \* GetItem returned result.Item == nil
NoValue    == "none"             \* a local variable not assigned yet

\* the AUTH table: Sec-WebSocket-Protocol header value -> user_hash
AuthKeys == {"", "k1", "k2", "kx"}
AuthTable(k) ==
    CASE k = "k1"  -> "u1"
      [] k = "k2"  -> "u2"
      [] OTHER     -> NoItem

Texts == {"a", "b"}              \* text fragments of content_block_delta

EventNames == {"message_start", "content_block_start", "ping",
               "content_block_delta", "content_block_stop", "message_delta",
               "message_stop", "other_event"}

\* what json.Unmarshal and the two type assertions make of a data line
Payloads == {"bad_json", "no_delta", "no_text"} \cup Texts

\* event.Body as handleSendMessage classifies it (lines 104-170)
Bodies == {"ok", "bad_json", "invalid", "bad_params", "invalid_params",
           "no_template", "no_system_template", "unknown_type"}

VARIABLES
    sessions,     \* WS_CONNECTIONS: connection_id -> user_hash or NoItem
    users,        \* USERS: user_hash -> remaining_requests
    wsOpen,       \* the API Gateway connection is open
    hpc,          \* position of the handler invocation of the connection
    handler,      \* which handler is running or ran last
    authKey,      \* the Sec-WebSocket-Protocol header handleConnect was given
    lastLine,     \* log of the stream: the line handled last and the currentEvent it met
    connStatus,   \* status code returned by handleConnect (0: not returned)
    sendStatus,   \* status code returned by handleSendMessage
    disconnected, \* the last handleDisconnect of the connection: [done, status]
    message,      \* closeConnection's message argument
    userHash,     \* handleSendMessage's userHash (line 88)
    remaining,    \* handleSendMessage's remainingRequests (line 94), <<>> before
    doneHash,     \* userHash of the done branch (line 213)
    text,         \* the increment received from textChan (line 199)
    ctxDone,      \* ctx.Done() is closed
    ppc,          \* position of the producer goroutine
    currentEvent, \* callAnthropicAPI's currentEvent
    textChan,     \* the value the producer is blocked sending, or NoValue
    errorChan,    \* buffer of errorChan (capacity 1)
    errClosed,    \* errorChan is closed
    doneClosed,   \* doneChan is closed
    frames,       \* payloads passed to sendWebSocketMessage, in order
    emitted,      \* text fragments the producer put on textChan, in order
    term,         \* how the decoder stopped reading
    decr,         \* quota decrements of this relay: [tried, ok]
    cleanup,      \* what closeConnection attempted in this invocation
    spins,        \* nil errors received from the closed errorChan
    nlines,       \* lines read from all upstream bodies
    \* ---- the Lambdas of the API; each variable is a record of the tables
    \* and of the invocations' locals that are named below
    orders,       \* ORDERS: order_id -> [created, active, updated_at]
    userApi,      \* getUser
    otpApi,       \* verifyOTP
    payApi,       \* handlePaymentVerification
    fnCall        \* a function without state: [arg, out]

\* the state of the Lambdas other than the websocket relay
apiVars == <<orders, userApi, otpApi, payApi, fnCall>>

\* ---- getUser: its invocations and what was done to USERS and ORDERS
gpc       == userApi.gpc        \* position of each getUser invocation
processed == userApi.processed  \* orders an UpdateItem of markOrdersAsProcessed marked
relayDecr == userApi.relayDecr  \* decrements completed relays applied to USERS

\* ---- verifyOTP
otpActive  == otpApi.otpActive  \* OTP: the Active attribute of the stored code
otpExpired == otpApi.otpExpired \* the stored code is older than 300 seconds
vpc        == otpApi.vpc        \* position of each verifyOTP invocation
vStatus    == otpApi.vStatus    \* status code returned by verifyOTP (0: not returned)
issued     == otpApi.issued     \* AUTH: the keys verifyOTP stored, [call, late]

\* ---- handlePaymentVerification
pvpc     == payApi.pvpc         \* position of each invocation
pvOrder  == payApi.pvOrder      \* the order the request names
pvActive == payApi.pvActive     \* order.Active as getOrderByStripeID returned it
pvPaid   == payApi.pvPaid       \* Stripe reported the checkout session paid
pvFault  == payApi.pvFault      \* a call to DynamoDB or Stripe failed for reasons of its own
pvStatus == payApi.pvStatus     \* status code returned (0: not returned)
pvCalls  == payApi.pvCalls      \* what the invocation did: [stripe, update]

\* ---- functions without state
fnArg == fnCall.arg             \* the argument a function is applied to
fnOut == fnCall.out             \* its result, <<>> before the call

vars == <<sessions, users, wsOpen, hpc, handler, authKey, lastLine, connStatus, sendStatus,
          disconnected, message, userHash, remaining, doneHash, text,
          ctxDone, ppc, currentEvent, textChan, errorChan, errClosed,
          doneClosed, frames, emitted, term, decr, cleanup, spins, nlines,
          apiVars>>

producerVars == <<ppc, currentEvent, textChan, errorChan, errClosed,
                  doneClosed, emitted, term, nlines>>
localVars    == <<userHash, remaining, doneHash, text>>

\* the variables of the relay other than the USERS table
connVars == <<sessions, wsOpen, hpc, handler, authKey, lastLine, connStatus,
              sendStatus, disconnected, message, localVars, ctxDone,
              producerVars, frames, decr, cleanup, spins>>

\* no line was logged yet
NoLine == [event |-> "", kind |-> "none", val |-> ""]

\* handleDisconnect was not invoked yet
NoDisconnect == [done |-> FALSE, status |-> 0]

NoCleanup == [client |-> "none", close |-> 0, closeOk |-> 0,
              remove |-> 0, removeOk |-> 0]

\* the state before any route was invoked for the connections of S
Fresh(S) ==
    /\ sessions     = [c \in S |-> NoItem]
    /\ wsOpen       = [c \in S |-> FALSE]
    /\ hpc          = [c \in S |-> "new"]
    /\ handler      = [c \in S |-> "none"]
    /\ authKey      = [c \in S |-> NoValue]
    /\ connStatus   = [c \in S |-> 0]
    /\ sendStatus   = [c \in S |-> 0]
    /\ disconnected = [c \in S |-> NoDisconnect]
    /\ message      = [c \in S |-> ""]
    /\ userHash     = [c \in S |-> NoValue]
    /\ remaining    = [c \in S |-> <<>>]
    /\ doneHash     = [c \in S |-> NoValue]
    /\ text         = [c \in S |-> NoValue]
    /\ ctxDone      = [c \in S |-> FALSE]
    /\ ppc          = [c \in S |-> "none"]
    /\ currentEvent = [c \in S |-> ""]
    /\ textChan     = [c \in S |-> NoValue]
    /\ errorChan    = [c \in S |-> <<>>]
    /\ errClosed    = [c \in S |-> FALSE]
    /\ doneClosed   = [c \in S |-> FALSE]
    /\ frames       = [c \in S |-> <<>>]
    /\ emitted      = [c \in S |-> <<>>]
    /\ term         = [c \in S |-> "none"]
    /\ decr         = [c \in S |-> [tried |-> 0, ok |-> 0]]
    /\ cleanup      = [c \in S |-> NoCleanup]
    /\ spins        = [c \in S |-> 0]
    /\ lastLine     = [c \in S |-> NoLine]
    /\ nlines       = 0

\* the connections the behaviour is about
Conns == DOMAIN hpc

\* ---- the user API
GetUserCalls == {"g1", "g2"}     \* two invocations of getUser
OrderIds     == {"o1", "o2"}     \* the orders of user u1
\* the tokens of the product of an order (PRODUCTS, via item_id)
OrderTokens(o) == IF o = "o1" THEN 1 ELSE 2
\* user_hash of an order
OrderUser(o) == "u1"
activeStatus   == 1
inactiveStatus == 0

\* no getUser invocation for the calls of S.  The locals of an invocation:
\*   gHash    getUser's userHash
\*   gUser    getUser's user.RemainingRequests
\*   gSeen    the orders getUnprocessedOrdersAndProducts returned
\*   gDone    orders whose goroutine of markOrdersAsProcessed ended
\*   gFailed  an UpdateItem of markOrdersAsProcessed failed
\*   gStatus  status code returned by getUser (0: not returned)
IdleUserApi(S) ==
    userApi = [gpc       |-> [g \in S |-> "start"],
               gHash     |-> [g \in S |-> NoValue],
               gUser     |-> [g \in S |-> 0],
               gSeen     |-> [g \in S |-> {}],
               gDone     |-> [g \in S |-> {}],
               gFailed   |-> [g \in S |-> FALSE],
               gStatus   |-> [g \in S |-> 0],
               processed |-> {},
               relayDecr |-> 0]

\* ---- OTP verification
VerifyCalls == {"v1", "v2", "v3"}    \* three invocations of verifyOTP

\* no verifyOTP invocation for the calls of S; the stored code is active
IdleOtp(S) ==
    otpApi = [otpActive  |-> TRUE,
              otpExpired |-> FALSE,
              vpc        |-> [v \in S |-> "start"],
              vStatus    |-> [v \in S |-> 0],
              issued     |-> {}]

\* ---- payment verification
PayCalls == {"p1", "p2"}         \* two invocations of handlePaymentVerification
NoCalls  == [stripe |-> 0, update |-> 0]

\* no handlePaymentVerification invocation for the calls of S
IdlePay(S) ==
    payApi = [pvpc     |-> [p \in S |-> "start"],
              pvOrder  |-> [p \in S |-> NoValue],
              pvActive |-> [p \in S |-> 0],
              pvPaid   |-> [p \in S |-> FALSE],
              pvFault  |-> [p \in S |-> FALSE],
              pvStatus |-> [p \in S |-> 0],
              pvCalls  |-> [p \in S |-> NoCalls]]

\* ---- pure functions: none is applied
IdleFn == fnCall = [arg |-> <<>>, out |-> <<>>]

\* the relay alone: the other Lambdas are never invoked
ApiIdle ==
    /\ orders = <<>>
    /\ IdleUserApi({}) /\ IdleOtp({}) /\ IdlePay({}) /\ IdleFn

\* One connection; user u1 starts with any quota, also an exhausted one and
\* one that concurrent relays have driven below 0 (see C8_NoOverdraw).
Init ==
    /\ Fresh(ConnIds)
    /\ ApiIdle
    /\ \E q \in (0 - Overdraft)..MaxQuota :
         users = [u \in Identities |-> IF u = "u1" THEN q ELSE MaxQuota]

\* One connection whose users all have quota left: the starts from which a
\* relay can reach the select loop.
InitFair ==
    /\ Fresh(ConnIds)
    /\ ApiIdle
    /\ users = [u \in Identities |-> MaxQuota]

\* ------------------------------------------------------- external services
\* PostToConnection and DeleteConnection fail on a connection that is gone
\* and may fail on an open one.
TransportOutcomes(c) == IF wsOpen[c] THEN {TRUE, FALSE} ELSE {FALSE}

\* sendWebSocketMessage: the payloads handed to PostToConnection so far
sendWebSocketMessage(sent, payload) == Append(sent, payload)

\* createResponse: the status code the handler returns
createResponse(statusCode) == statusCode

\* h.closeConnection(ctx, event, msg) called from a handler: control moves
\* to the first step of closeConnection
CallClose(c, msg) ==
    /\ hpc'     = [hpc EXCEPT ![c] = "close_ws"]
    /\ message' = [message EXCEPT ![c] = msg]

\* the handler returns status to API Gateway; a $connect that returns a
\* success status makes the gateway open the connection
Return(c, h, status) ==
    IF h = "connect"
    THEN /\ hpc'        = [hpc EXCEPT ![c] = "connected"]
         /\ connStatus' = [connStatus EXCEPT ![c] = createResponse(status)]
         /\ wsOpen'     = [wsOpen EXCEPT ![c] = (createResponse(status) < 400)]
         /\ sendStatus' = sendStatus
    ELSE /\ hpc'        = [hpc EXCEPT ![c] = "returned"]
         /\ sendStatus' = [sendStatus EXCEPT ![c] = createResponse(status)]
         /\ UNCHANGED <<connStatus, wsOpen>>

\* ------------------------------------------------------------ handleConnect
\* getUserHashFromAuth without the result.Item == nil check: the missing
\* item unmarshals into the empty user_hash
getUserHashFromAuth_noNilCheck(k, getOk) ==
    IF k = "" THEN "error"
    ELSE IF ~getOk THEN "error"
    ELSE IF AuthTable(k) = NoItem THEN ""
    ELSE AuthTable(k)

\* getUserHashFromAuth: the user_hash of the AUTH item, or "error"
getUserHashFromAuth(k, getOk) ==
    IF k = "" THEN "error"
    ELSE IF ~getOk THEN "error"
    ELSE IF AuthTable(k) = NoItem THEN "error"
    ELSE AuthTable(k)

\* storeConnectionInDynamoDB: the table after PutItem
storeConnectionInDynamoDB(tbl, c, hash) == [tbl EXCEPT ![c] = hash]

\* removeConnectionFromDynamoDB: the table after DeleteItem
removeConnectionFromDynamoDB(tbl, c) == [tbl EXCEPT ![c] = NoItem]

HandleConnect(c) ==
    /\ hpc[c] = "new"
    /\ \E k \in AuthKeys, getOk \in BOOLEAN, putOk \in BOOLEAN :
         LET hash == getUserHashFromAuth(k, getOk) IN
         /\ handler' = [handler EXCEPT ![c] = "connect"]
         /\ authKey' = [authKey EXCEPT ![c] = k]
         /\ IF k = ""
            THEN /\ CallClose(c, "Authentication required")
                 /\ UNCHANGED <<sessions, connStatus, sendStatus, wsOpen>>
            ELSE IF hash = "error"
            THEN /\ CallClose(c, "Failed to authenticate user")
                 /\ UNCHANGED <<sessions, connStatus, sendStatus, wsOpen>>
            ELSE IF ~putOk
            THEN /\ CallClose(c, "Failed to store connection")
                 /\ UNCHANGED <<sessions, connStatus, sendStatus, wsOpen>>
            ELSE /\ sessions' = storeConnectionInDynamoDB(sessions, c, hash)
                 /\ Return(c, "connect", 200)
                 /\ UNCHANGED message
    /\ UNCHANGED <<users, lastLine, apiVars, disconnected, localVars, ctxDone,
                   producerVars, frames, decr, cleanup, spins>>

\* --------------------------------------------------------- handleDisconnect
\* the client, or the network, closes the websocket connection
ClientClose(c) ==
    /\ wsOpen[c]
    /\ wsOpen' = [wsOpen EXCEPT ![c] = FALSE]
    /\ UNCHANGED <<sessions, users, hpc, handler, authKey, lastLine, apiVars, connStatus,
                   sendStatus, disconnected, message, localVars, ctxDone,
                   producerVars, frames, decr, cleanup, spins>>

\* handleDisconnect that looks the session up first and answers 404 when
\* there is none
HandleDisconnect_checked(c) ==
    /\ connStatus[c] = 200
    /\ ~wsOpen[c]
    /\ IF sessions[c] = NoItem
       THEN /\ disconnected' = [disconnected EXCEPT ![c] =
                    [done |-> TRUE, status |-> 404]]
            /\ UNCHANGED sessions
       ELSE \E delOk \in BOOLEAN :
              /\ sessions' = IF delOk THEN removeConnectionFromDynamoDB(sessions, c)
                             ELSE sessions
              /\ disconnected' = [disconnected EXCEPT ![c] =
                     [done |-> TRUE, status |-> 200]]
    /\ UNCHANGED <<users, wsOpen, hpc, handler, authKey, lastLine, apiVars, connStatus,
                   sendStatus, message, localVars, ctxDone, producerVars,
                   frames, decr, cleanup, spins>>

\* the $disconnect route, invoked once an established connection is closed;
\* lines 76-84: DeleteItem, its error only logged, then 200
HandleDisconnect(c) ==
    /\ connStatus[c] = 200
    /\ ~wsOpen[c]
    /\ \E delOk \in BOOLEAN :
         /\ sessions' = IF delOk THEN removeConnectionFromDynamoDB(sessions, c)
                        ELSE sessions
         /\ disconnected' = [disconnected EXCEPT ![c] =
                [done |-> TRUE, status |-> createResponse(200)]]
    /\ UNCHANGED <<users, wsOpen, hpc, handler, authKey, lastLine, apiVars, connStatus,
                   sendStatus, message, localVars, ctxDone, producerVars,
                   frames, decr, cleanup, spins>>

\* ---------------------------------------------------------- closeConnection
\* lines 549-565: create the client, send the message, close the connection
CloseWs(c) ==
    /\ hpc[c] = "close_ws"
    /\ \E clientOk \in BOOLEAN, closeOk \in TransportOutcomes(c) :
         IF ~clientOk
         THEN /\ cleanup' = [cleanup EXCEPT ![c].client = "failed"]
              /\ Return(c, handler[c], 500)
              /\ UNCHANGED frames
         ELSE /\ frames' = IF message[c] # ""
                           THEN [frames EXCEPT ![c] = sendWebSocketMessage(@, message[c])]
                           ELSE frames
              /\ cleanup' = [cleanup EXCEPT ![c].client = "ok",
                                            ![c].close = @ + 1,
                                            ![c].closeOk = @ + (IF closeOk THEN 1 ELSE 0)]
              /\ wsOpen' = IF closeOk THEN [wsOpen EXCEPT ![c] = FALSE] ELSE wsOpen
              /\ hpc' = [hpc EXCEPT ![c] = "close_db"]
              /\ UNCHANGED <<connStatus, sendStatus>>
    /\ UNCHANGED <<sessions, users, handler, authKey, lastLine, apiVars, disconnected, message,
                   localVars, ctxDone, producerVars, decr, spins>>

\* lines 567-573: remove the session record and return
CloseDb(c) ==
    /\ hpc[c] = "close_db"
    /\ \E delOk \in BOOLEAN :
         /\ sessions' = IF delOk THEN removeConnectionFromDynamoDB(sessions, c)
                        ELSE sessions
         /\ cleanup' = [cleanup EXCEPT ![c].remove = @ + 1,
                                       ![c].removeOk = @ + (IF delOk THEN 1 ELSE 0)]
    /\ Return(c, handler[c], 200)
    /\ UNCHANGED <<users, handler, authKey, lastLine, apiVars, disconnected, message,
                   localVars, ctxDone, producerVars, frames, decr, spins>>

\* -------------------------------------------------------- handleSendMessage
\* a message frame arrives on an established connection (default route)
StartSend(c) ==
    /\ hpc[c] = "connected"
    /\ connStatus[c] = 200
    /\ wsOpen[c]
    /\ hpc'     = [hpc EXCEPT ![c] = "get_session"]
    /\ handler' = [handler EXCEPT ![c] = "send"]
    /\ cleanup' = [cleanup EXCEPT ![c] = NoCleanup]
    /\ frames'  = [frames EXCEPT ![c] = <<>>]
    /\ UNCHANGED <<sessions, users, wsOpen, authKey, lastLine, apiVars, connStatus, sendStatus,
                   disconnected, message, localVars, ctxDone, producerVars,
                   decr, spins>>

\* getUserHashFromConnection: the user_hash of the WS_CONNECTIONS item, or
\* "error" when GetItem fails or finds no item
getUserHashFromConnection(tbl, c, getOk) ==
    IF ~getOk THEN "error"
    ELSE IF tbl[c] = NoItem THEN "error"
    ELSE tbl[c]

\* getRemainingRequests: <<remaining_requests>> of the USERS item, or <<>>
\* when it returns an error
getRemainingRequests(tbl, hash, getOk) ==
    IF ~getOk THEN <<>> ELSE <<tbl[hash]>>

\* decreaseRemainingRequests with ":decr" bound to 2
decreaseRemainingRequests_by2(tbl, hash) == [tbl EXCEPT ![hash] = @ - 2]

\* decreaseRemainingRequests: the table after UpdateItem
\* SET remaining_requests = remaining_requests - :decr
decreaseRemainingRequests(tbl, hash) == [tbl EXCEPT ![hash] = @ - 1]

\* lines 88-91
GetSession(c) ==
    /\ hpc[c] = "get_session"
    /\ \E getOk \in BOOLEAN :
         LET hash == getUserHashFromConnection(sessions, c, getOk) IN
         IF hash = "error"
         THEN /\ CallClose(c, "Failed to retrieve user")
              /\ UNCHANGED userHash
         ELSE /\ userHash' = [userHash EXCEPT ![c] = hash]
              /\ hpc' = [hpc EXCEPT ![c] = "get_quota"]
              /\ UNCHANGED message
    /\ UNCHANGED <<sessions, users, wsOpen, handler, authKey, lastLine, apiVars, connStatus,
                   sendStatus, disconnected, remaining, doneHash, text,
                   ctxDone, producerVars, frames, decr, cleanup, spins>>

\* the message closeConnection gets for a body that is refused (lines 104-170)
BodyMessage(body) ==
    CASE body = "bad_json"           -> "Error parsing request JSON"
      [] body = "invalid"            -> "Validation error"
      [] body = "bad_params"         -> "Error parsing parameters"
      [] body = "invalid_params"     -> "Validation error"
      [] body = "no_template"        -> "Error processing template"
      [] body = "no_system_template" -> "Error processing system prompt template"
      [] body = "unknown_type"       -> "Unknown request type"
      [] OTHER                       -> ""

\* the quota check written with < in place of <=
QuotaExhausted_strict(r) == r < 0

\* the quota check of line 100
QuotaExhausted(r) == r <= 0

\* handleSendMessage with the go statement placed before the parsing and
\* validation of the body
GetQuota_early(c) ==
    /\ hpc[c] = "get_quota"
    /\ \E getOk \in BOOLEAN, body \in Bodies, clientOk \in BOOLEAN :
         LET r == getRemainingRequests(users, userHash[c], getOk) IN
         IF r = <<>>
         THEN /\ CallClose(c, "Failed to check remaining tokens")
              /\ UNCHANGED <<remaining, ppc>>
         ELSE /\ remaining' = [remaining EXCEPT ![c] = r]
              /\ IF QuotaExhausted(r[1])
                 THEN /\ CallClose(c, "You have no remaining tokens available")
                      /\ UNCHANGED ppc
                 ELSE IF body # "ok"
                 THEN /\ CallClose(c, BodyMessage(body))
                      /\ ppc' = [ppc EXCEPT ![c] = "http"]
                 ELSE /\ ppc' = [ppc EXCEPT ![c] = "http"]
                      /\ IF clientOk
                         THEN /\ hpc' = [hpc EXCEPT ![c] = "select"]
                              /\ UNCHANGED message
                         ELSE CallClose(c, "Failed to create WebSocket client")
    /\ UNCHANGED <<sessions, users, wsOpen, handler, authKey, lastLine, apiVars, connStatus,
                   sendStatus, disconnected, userHash, doneHash, text,
                   ctxDone, currentEvent, textChan, errorChan, errClosed,
                   doneClosed, emitted, term, nlines, frames, decr, cleanup,
                   spins>>

\* lines 94-194: read the quota, refuse or start the producer goroutine and
\* create the websocket client
GetQuota(c) ==
    /\ hpc[c] = "get_quota"
    /\ \E getOk \in BOOLEAN, body \in Bodies, clientOk \in BOOLEAN :
         LET r == getRemainingRequests(users, userHash[c], getOk) IN
         IF r = <<>>
         THEN /\ CallClose(c, "Failed to check remaining tokens")
              /\ UNCHANGED <<remaining, ppc>>
         ELSE /\ remaining' = [remaining EXCEPT ![c] = r]
              /\ IF QuotaExhausted(r[1])
                 THEN /\ CallClose(c, "You have no remaining tokens available")
                      /\ UNCHANGED ppc
                 ELSE IF body # "ok"
                 THEN /\ CallClose(c, BodyMessage(body))
                      /\ UNCHANGED ppc
                 ELSE /\ ppc' = [ppc EXCEPT ![c] = "http"]
                      /\ IF clientOk
                         THEN /\ hpc' = [hpc EXCEPT ![c] = "select"]
                              /\ UNCHANGED message
                         ELSE CallClose(c, "Failed to create WebSocket client")
    /\ UNCHANGED <<sessions, users, wsOpen, handler, authKey, lastLine, apiVars, connStatus,
                   sendStatus, disconnected, userHash, doneHash, text,
                   ctxDone, currentEvent, textChan, errorChan, errClosed,
                   doneClosed, emitted, term, nlines, frames, decr, cleanup,
                   spins>>

\* a loop that waits on a context detached from the invocation's deadline
Deadline_detached(c) ==
    /\ handler[c] = "send"
    /\ hpc[c] # "returned"
    /\ ~ctxDone[c]
    /\ ctxDone' = ctxDone
    /\ UNCHANGED <<sessions, users, wsOpen, hpc, handler, authKey, lastLine, apiVars, connStatus,
                   sendStatus, disconnected, message, localVars, producerVars,
                   frames, decr, cleanup, spins>>

\* the Lambda invocation's context reaches its deadline
Deadline(c) ==
    /\ handler[c] = "send"
    /\ hpc[c] # "returned"
    /\ ~ctxDone[c]
    /\ ctxDone' = [ctxDone EXCEPT ![c] = TRUE]
    /\ UNCHANGED <<sessions, users, wsOpen, hpc, handler, authKey, lastLine, apiVars, connStatus,
                   sendStatus, disconnected, message, localVars, producerVars,
                   frames, decr, cleanup, spins>>

\* ---------------------------------------------------------- callAnthropicAPI
\* the lines of the response body, as the scanner loop tells them apart
Lines == [kind : {"event"}, val : EventNames]
         \cup [kind : {"data"}, val : Payloads]
         \cup {[kind |-> "other", val |-> ""]}

\* DecodeLine with one data line per event: currentEvent is cleared by the
\* data line it dispatched
DecodeLine_resetEvent(ev, line) ==
    IF line.kind = "event"
    THEN [event |-> line.val, do |-> "continue"]
    ELSE IF line.kind = "data"
    THEN IF line.val = "bad_json"
         THEN [event |-> "", do |-> "error"]
         ELSE IF ev = "content_block_delta" /\ line.val \in Texts
         THEN [event |-> "", do |-> "emit"]
         ELSE IF ev = "message_stop"
         THEN [event |-> "", do |-> "done"]
         ELSE [event |-> "", do |-> "continue"]
    ELSE [event |-> ev, do |-> "continue"]

\* DecodeLine with a strict content_block_delta: a payload without a delta
\* object, or without a string text in it, is an error of the stream
DecodeLine_strictDelta(ev, line) ==
    IF line.kind = "event"
    THEN [event |-> line.val, do |-> "continue"]
    ELSE IF line.kind = "data"
    THEN IF line.val = "bad_json"
         THEN [event |-> ev, do |-> "error"]
         ELSE IF ev = "content_block_delta" /\ line.val \in Texts
         THEN [event |-> ev, do |-> "emit"]
         ELSE IF ev = "content_block_delta"
         THEN [event |-> ev, do |-> "error"]
         ELSE IF ev = "message_stop"
         THEN [event |-> ev, do |-> "done"]
         ELSE [event |-> ev, do |-> "continue"]
    ELSE [event |-> ev, do |-> "continue"]

\* DecodeLine without the switch on currentEvent of case content_block_delta:
\* a text payload is emitted under any event
DecodeLine_anyEvent(ev, line) ==
    IF line.kind = "event"
    THEN [event |-> line.val, do |-> "continue"]
    ELSE IF line.kind = "data"
    THEN IF line.val = "bad_json"
         THEN [event |-> ev, do |-> "error"]
         ELSE IF line.val \in Texts
         THEN [event |-> ev, do |-> "emit"]
         ELSE IF ev = "message_stop"
         THEN [event |-> ev, do |-> "done"]
         ELSE [event |-> ev, do |-> "continue"]
    ELSE [event |-> ev, do |-> "continue"]

\* lines 313-352: what one line does, given currentEvent.  The result names
\* the new currentEvent and what the loop does next: "continue", "emit" a
\* text on textChan, "done" (close doneChan and return nil) or "error"
\* (return the unmarshal error).
DecodeLine(ev, line) ==
    IF line.kind = "event"
    THEN [event |-> line.val, do |-> "continue"]
    ELSE IF line.kind = "data"
    THEN IF line.val = "bad_json"
         THEN [event |-> ev, do |-> "error"]
         ELSE IF ev = "content_block_delta" /\ line.val \in Texts
         THEN [event |-> ev, do |-> "emit"]
         ELSE IF ev = "message_stop"
         THEN [event |-> ev, do |-> "done"]
         ELSE [event |-> ev, do |-> "continue"]
    ELSE [event |-> ev, do |-> "continue"]

\* line 359: whether the end of the body closes doneChan
CloseDoneAtEOF == TRUE

\* lines 288-306: marshal, build and send the HTTP request
HttpDo(c) ==
    /\ ppc[c] = "http"
    /\ \E ok \in BOOLEAN :
         IF ok
         THEN /\ ppc' = [ppc EXCEPT ![c] = "scan"]
              /\ UNCHANGED term
         ELSE /\ ppc' = [ppc EXCEPT ![c] = "ret_err"]
              /\ term' = [term EXCEPT ![c] = "http_error"]
    /\ UNCHANGED <<sessions, users, wsOpen, hpc, handler, authKey, lastLine, apiVars, connStatus,
                   sendStatus, disconnected, message, localVars, ctxDone,
                   currentEvent, textChan, errorChan, errClosed, doneClosed,
                   emitted, nlines, frames, decr, cleanup, spins>>

\* the decoder with textChan made with a buffer of one: the send of line 337
\* returns at once while the buffer is free
ScanLine_buffered(c) ==
    /\ ppc[c] = "scan"
    /\ nlines < MaxLines
    /\ \E line \in Lines :
         LET d == DecodeLine(currentEvent[c], line) IN
         /\ nlines' = nlines + 1
         /\ currentEvent' = [currentEvent EXCEPT ![c] = d.event]
         /\ CASE d.do = "emit" ->
                   /\ textChan' = [textChan EXCEPT ![c] = line.val]
                   /\ emitted' = [emitted EXCEPT ![c] = Append(@, line.val)]
                   /\ ppc' = [ppc EXCEPT ![c] =
                                 IF textChan[c] = NoValue THEN "scan" ELSE "send"]
                   /\ UNCHANGED <<doneClosed, term>>
              [] d.do = "done" ->
                   /\ doneClosed' = [doneClosed EXCEPT ![c] = TRUE]
                   /\ term' = [term EXCEPT ![c] = "message_stop"]
                   /\ ppc' = [ppc EXCEPT ![c] = "ret_nil"]
                   /\ UNCHANGED <<textChan, emitted>>
              [] d.do = "error" ->
                   /\ term' = [term EXCEPT ![c] = "json_error"]
                   /\ ppc' = [ppc EXCEPT ![c] = "ret_err"]
                   /\ UNCHANGED <<textChan, emitted, doneClosed>>
              [] OTHER ->
                   UNCHANGED <<textChan, emitted, doneClosed, term, ppc>>
    /\ UNCHANGED <<sessions, users, wsOpen, hpc, handler, authKey, lastLine, apiVars, connStatus,
                   sendStatus, disconnected, message, localVars, ctxDone,
                   errorChan, errClosed, frames, decr, cleanup, spins>>

\* a decoder whose send on textChan does not wait (select with a default
\* case): the increment is handed over when the loop is waiting in select
\* and dropped otherwise
ScanLine_nonblocking(c) ==
    /\ ppc[c] = "scan"
    /\ nlines < MaxLines
    /\ \E line \in Lines :
         LET d == DecodeLine(currentEvent[c], line) IN
         /\ nlines' = nlines + 1
         /\ currentEvent' = [currentEvent EXCEPT ![c] = d.event]
         /\ CASE d.do = "emit" ->
                   /\ emitted' = [emitted EXCEPT ![c] = Append(@, line.val)]
                   /\ IF hpc[c] = "select"
                      THEN /\ text' = [text EXCEPT ![c] = line.val]
                           /\ hpc' = [hpc EXCEPT ![c] = "send_text"]
                      ELSE UNCHANGED <<text, hpc>>
                   /\ UNCHANGED <<textChan, ppc, doneClosed, term>>
              [] d.do = "done" ->
                   /\ doneClosed' = [doneClosed EXCEPT ![c] = TRUE]
                   /\ term' = [term EXCEPT ![c] = "message_stop"]
                   /\ ppc' = [ppc EXCEPT ![c] = "ret_nil"]
                   /\ UNCHANGED <<textChan, emitted, text, hpc>>
              [] d.do = "error" ->
                   /\ term' = [term EXCEPT ![c] = "json_error"]
                   /\ ppc' = [ppc EXCEPT ![c] = "ret_err"]
                   /\ UNCHANGED <<textChan, emitted, doneClosed, text, hpc>>
              [] OTHER ->
                   UNCHANGED <<textChan, emitted, doneClosed, term, ppc, text, hpc>>
    /\ UNCHANGED <<sessions, users, wsOpen, handler, authKey, lastLine, apiVars, connStatus,
                   sendStatus, disconnected, message, userHash, remaining,
                   doneHash, ctxDone, errorChan, errClosed, frames, decr,
                   cleanup, spins>>

\* ScanLineOn with a message_stop that closes doneChan and reads on, as
\* without the return of line 347
ScanLineOn_noReturn(c, line) ==
    /\ ppc[c] = "scan"
    /\ nlines < MaxLines
    /\ LET d == DecodeLine(currentEvent[c], line) IN
         /\ nlines' = nlines + 1
         /\ currentEvent' = [currentEvent EXCEPT ![c] = d.event]
         /\ CASE d.do = "emit" ->
                   /\ textChan' = [textChan EXCEPT ![c] = line.val]
                   /\ emitted' = [emitted EXCEPT ![c] = Append(@, line.val)]
                   /\ ppc' = [ppc EXCEPT ![c] = "send"]
                   /\ UNCHANGED <<doneClosed, term>>
              [] d.do = "done" ->
                   /\ doneClosed' = [doneClosed EXCEPT ![c] = TRUE]
                   /\ term' = [term EXCEPT ![c] = "message_stop"]
                   /\ UNCHANGED <<textChan, emitted, ppc>>
              [] d.do = "error" ->
                   /\ term' = [term EXCEPT ![c] = "json_error"]
                   /\ ppc' = [ppc EXCEPT ![c] = "ret_err"]
                   /\ UNCHANGED <<textChan, emitted, doneClosed>>
              [] OTHER ->
                   UNCHANGED <<textChan, emitted, doneClosed, term, ppc>>
    /\ UNCHANGED <<sessions, users, wsOpen, hpc, handler, authKey, apiVars, connStatus,
                   sendStatus, disconnected, message, localVars, ctxDone,
                   errorChan, errClosed, frames, decr, cleanup, spins>>

\* lines 312-353: one iteration of the scanner loop, on the line given
ScanLineOn(c, line) ==
    /\ ppc[c] = "scan"
    /\ nlines < MaxLines
    /\ LET d == DecodeLine(currentEvent[c], line) IN
         /\ nlines' = nlines + 1
         /\ currentEvent' = [currentEvent EXCEPT ![c] = d.event]
         /\ CASE d.do = "emit" ->
                   /\ textChan' = [textChan EXCEPT ![c] = line.val]
                   /\ emitted' = [emitted EXCEPT ![c] = Append(@, line.val)]
                   /\ ppc' = [ppc EXCEPT ![c] = "send"]
                   /\ UNCHANGED <<doneClosed, term>>
              [] d.do = "done" ->
                   /\ doneClosed' = [doneClosed EXCEPT ![c] = TRUE]
                   /\ term' = [term EXCEPT ![c] = "message_stop"]
                   /\ ppc' = [ppc EXCEPT ![c] = "ret_nil"]
                   /\ UNCHANGED <<textChan, emitted>>
              [] d.do = "error" ->
                   /\ term' = [term EXCEPT ![c] = "json_error"]
                   /\ ppc' = [ppc EXCEPT ![c] = "ret_err"]
                   /\ UNCHANGED <<textChan, emitted, doneClosed>>
              [] OTHER ->
                   UNCHANGED <<textChan, emitted, doneClosed, term, ppc>>
    /\ UNCHANGED <<sessions, users, wsOpen, hpc, handler, authKey, apiVars, connStatus,
                   sendStatus, disconnected, message, localVars, ctxDone,
                   errorChan, errClosed, frames, decr, cleanup, spins>>

\* ScanLine with the log kept: the line and the currentEvent it was
\* dispatched under are recorded
ReadLine(c) ==
    \E line \in Lines :
        /\ ScanLineOn(c, line)
        /\ lastLine' = [lastLine EXCEPT ![c] =
               [event |-> currentEvent[c], kind |-> line.kind, val |-> line.val]]

\* lines 312-353: scanner.Scan() delivers a line
ScanLine(c) ==
    /\ \E line \in Lines : ScanLineOn(c, line)
    /\ UNCHANGED lastLine

\* lines 312, 355-361: scanner.Scan() returns false, at the end of the body
\* or on a read error
\* ScanEnd with doneChan closed on every way out of the loop, as a deferred
\* close(doneChan) would do
ScanEnd_deferClose(c) ==
    /\ ppc[c] = "scan"
    /\ \E readOk \in BOOLEAN :
         IF readOk
         THEN /\ term' = [term EXCEPT ![c] = "eof"]
              /\ doneClosed' = [doneClosed EXCEPT ![c] = CloseDoneAtEOF]
              /\ ppc' = [ppc EXCEPT ![c] = "ret_nil"]
         ELSE /\ term' = [term EXCEPT ![c] = "scan_error"]
              /\ doneClosed' = [doneClosed EXCEPT ![c] = TRUE]
              /\ ppc' = [ppc EXCEPT ![c] = "ret_err"]
    /\ UNCHANGED <<sessions, users, wsOpen, hpc, handler, authKey, lastLine, apiVars, connStatus,
                   sendStatus, disconnected, message, localVars, ctxDone,
                   currentEvent, textChan, errorChan, errClosed, emitted,
                   nlines, frames, decr, cleanup, spins>>

ScanEnd(c) ==
    /\ ppc[c] = "scan"
    /\ \E readOk \in BOOLEAN :
         IF readOk
         THEN /\ term' = [term EXCEPT ![c] = "eof"]
              /\ doneClosed' = [doneClosed EXCEPT ![c] = CloseDoneAtEOF]
              /\ ppc' = [ppc EXCEPT ![c] = "ret_nil"]
         ELSE /\ term' = [term EXCEPT ![c] = "scan_error"]
              /\ ppc' = [ppc EXCEPT ![c] = "ret_err"]
              /\ UNCHANGED doneClosed
    /\ UNCHANGED <<sessions, users, wsOpen, hpc, handler, authKey, lastLine, apiVars, connStatus,
                   sendStatus, disconnected, message, localVars, ctxDone,
                   currentEvent, textChan, errorChan, errClosed, emitted,
                   nlines, frames, decr, cleanup, spins>>

\* lines 184-186: callAnthropicAPI returned an error, errorChan <- err
\* SendError on an errorChan without buffer: the send waits for the loop to
\* receive in its select
SendError_unbuffered(c) ==
    /\ ppc[c] = "ret_err"
    /\ hpc[c] = "select"
    /\ Len(errorChan[c]) < 1
    /\ ~errClosed[c]
    /\ errorChan' = [errorChan EXCEPT ![c] = Append(@, term[c])]
    /\ ppc' = [ppc EXCEPT ![c] = "ret_nil"]
    /\ UNCHANGED <<sessions, users, wsOpen, hpc, handler, authKey, lastLine, apiVars, connStatus,
                   sendStatus, disconnected, message, localVars, ctxDone,
                   currentEvent, textChan, errClosed, doneClosed, emitted,
                   term, nlines, frames, decr, cleanup, spins>>

SendError(c) ==
    /\ ppc[c] = "ret_err"
    /\ Len(errorChan[c]) < 1
    /\ ~errClosed[c]
    /\ errorChan' = [errorChan EXCEPT ![c] = Append(@, term[c])]
    /\ ppc' = [ppc EXCEPT ![c] = "ret_nil"]
    /\ UNCHANGED <<sessions, users, wsOpen, hpc, handler, authKey, lastLine, apiVars, connStatus,
                   sendStatus, disconnected, message, localVars, ctxDone,
                   currentEvent, textChan, errClosed, doneClosed, emitted,
                   term, nlines, frames, decr, cleanup, spins>>

\* line 187: close(errorChan), the goroutine ends
CloseErrorChan(c) ==
    /\ ppc[c] = "ret_nil"
    /\ errClosed' = [errClosed EXCEPT ![c] = TRUE]
    /\ ppc' = [ppc EXCEPT ![c] = "exited"]
    /\ UNCHANGED <<sessions, users, wsOpen, hpc, handler, authKey, lastLine, apiVars, connStatus,
                   sendStatus, disconnected, message, localVars, ctxDone,
                   currentEvent, textChan, errorChan, doneClosed, emitted,
                   term, nlines, frames, decr, cleanup, spins>>

\* ------------------------------------------- the select loop (lines 197-229)
\* case text, ok := <-textChan: the unbuffered send of line 337 and the
\* receive meet; the producer goes on scanning
RecvText(c) ==
    /\ hpc[c] = "select"
    /\ ppc[c] = "send"
    /\ text' = [text EXCEPT ![c] = textChan[c]]
    /\ textChan' = [textChan EXCEPT ![c] = NoValue]
    /\ ppc' = [ppc EXCEPT ![c] = "scan"]
    /\ hpc' = [hpc EXCEPT ![c] = "send_text"]
    /\ UNCHANGED <<sessions, users, wsOpen, handler, authKey, lastLine, apiVars, connStatus,
                   sendStatus, disconnected, message, userHash, remaining,
                   doneHash, ctxDone, currentEvent, errorChan, errClosed,
                   doneClosed, emitted, term, nlines, frames, decr, cleanup,
                   spins>>

\* SendText passing the increment a second time when the first send failed
SendText_retry(c) ==
    /\ hpc[c] = "send_text"
    /\ \E sendOk \in TransportOutcomes(c) :
         IF sendOk
         THEN /\ frames' = [frames EXCEPT ![c] = sendWebSocketMessage(@, text[c])]
              /\ hpc' = [hpc EXCEPT ![c] = "select"]
              /\ UNCHANGED message
         ELSE /\ frames' = [frames EXCEPT ![c] =
                     sendWebSocketMessage(sendWebSocketMessage(@, text[c]), text[c])]
              /\ CallClose(c, "Failed to send WebSocket message")
    /\ UNCHANGED <<sessions, users, wsOpen, handler, authKey, lastLine, apiVars, connStatus,
                   sendStatus, disconnected, localVars, ctxDone, producerVars,
                   decr, cleanup, spins>>

\* lines 203-206: sendWebSocketMessage(text)
SendText(c) ==
    /\ hpc[c] = "send_text"
    /\ frames' = [frames EXCEPT ![c] = sendWebSocketMessage(@, text[c])]
    /\ \E sendOk \in TransportOutcomes(c) :
         IF sendOk
         THEN /\ hpc' = [hpc EXCEPT ![c] = "select"]
              /\ UNCHANGED message
         ELSE CallClose(c, "Failed to send WebSocket message")
    /\ UNCHANGED <<sessions, users, wsOpen, handler, authKey, lastLine, apiVars, connStatus,
                   sendStatus, disconnected, localVars, ctxDone, producerVars,
                   decr, cleanup, spins>>

\* lines 207-210 with a buffered error: case err := <-errorChan, err != nil
RecvError(c) ==
    /\ hpc[c] = "select"
    /\ errorChan[c] # <<>>
    /\ errorChan' = [errorChan EXCEPT ![c] = Tail(@)]
    /\ CallClose(c, "Error calling Anthropic API")
    /\ UNCHANGED <<sessions, users, wsOpen, handler, authKey, lastLine, apiVars, connStatus,
                   sendStatus, disconnected, localVars, ctxDone, ppc,
                   currentEvent, textChan, errClosed, doneClosed, emitted,
                   term, nlines, frames, decr, cleanup, spins>>

\* lines 207-210 on the closed, empty errorChan: err is nil, the loop goes on
RecvNil(c) ==
    /\ hpc[c] = "select"
    /\ errorChan[c] = <<>>
    /\ errClosed[c]
    /\ spins[c] < MaxSpins
    /\ spins' = [spins EXCEPT ![c] = @ + 1]
    /\ UNCHANGED <<sessions, users, wsOpen, hpc, handler, authKey, lastLine, apiVars, connStatus,
                   sendStatus, disconnected, message, localVars, ctxDone,
                   producerVars, frames, decr, cleanup>>

\* lines 211-216: case <-doneChan, look the session up again
RecvDone(c) ==
    /\ hpc[c] = "select"
    /\ doneClosed[c]
    /\ \E getOk \in BOOLEAN :
         LET hash == getUserHashFromConnection(sessions, c, getOk) IN
         IF hash = "error"
         THEN /\ CallClose(c, "")
              /\ UNCHANGED doneHash
         ELSE /\ doneHash' = [doneHash EXCEPT ![c] = hash]
              /\ hpc' = [hpc EXCEPT ![c] = "decrease"]
              /\ UNCHANGED message
    /\ UNCHANGED <<sessions, users, wsOpen, handler, authKey, lastLine, apiVars, connStatus,
                   sendStatus, disconnected, userHash, remaining, text,
                   ctxDone, producerVars, frames, decr, cleanup, spins>>

\* the done branch without its return: after decreaseRemainingRequests the
\* loop selects again
Decrease_continue(c) ==
    /\ hpc[c] = "decrease"
    /\ \E updOk \in BOOLEAN :
         IF updOk
         THEN /\ users' = decreaseRemainingRequests(users, doneHash[c])
              /\ decr' = [decr EXCEPT ![c].tried = @ + 1, ![c].ok = @ + 1]
         ELSE /\ decr' = [decr EXCEPT ![c].tried = @ + 1]
              /\ UNCHANGED users
    /\ hpc' = [hpc EXCEPT ![c] = "select"]
    /\ UNCHANGED <<sessions, wsOpen, handler, authKey, lastLine, apiVars, connStatus,
                   sendStatus, disconnected, message, localVars, ctxDone,
                   producerVars, frames, cleanup, spins>>

\* lines 218-225: decreaseRemainingRequests, then closeConnection("")
Decrease(c) ==
    /\ hpc[c] = "decrease"
    /\ \E updOk \in BOOLEAN :
         IF updOk
         THEN /\ users' = decreaseRemainingRequests(users, doneHash[c])
              /\ decr' = [decr EXCEPT ![c].tried = @ + 1, ![c].ok = @ + 1]
         ELSE /\ decr' = [decr EXCEPT ![c].tried = @ + 1]
              /\ UNCHANGED users
    /\ CallClose(c, "")
    /\ UNCHANGED <<sessions, wsOpen, handler, authKey, lastLine, apiVars, connStatus,
                   sendStatus, disconnected, localVars, ctxDone, producerVars,
                   frames, cleanup, spins>>

\* a loop that looks at ctx.Done() only once the producer goroutine ended
Timeout_afterProducer(c) ==
    /\ hpc[c] = "select"
    /\ ctxDone[c]
    /\ ppc[c] = "exited"
    /\ CallClose(c, "Request timeout")
    /\ UNCHANGED <<sessions, users, wsOpen, handler, authKey, lastLine, apiVars, connStatus,
                   sendStatus, disconnected, localVars, ctxDone, producerVars,
                   frames, decr, cleanup, spins>>

\* lines 226-227: case <-ctx.Done()
Timeout(c) ==
    /\ hpc[c] = "select"
    /\ ctxDone[c]
    /\ CallClose(c, "Request timeout")
    /\ UNCHANGED <<sessions, users, wsOpen, handler, authKey, lastLine, apiVars, connStatus,
                   sendStatus, disconnected, localVars, ctxDone, producerVars,
                   frames, decr, cleanup, spins>>

\* ------------------------------------------------------------ specification
Next ==
    \E c \in Conns :
        \/ HandleConnect(c)
        \/ ClientClose(c)
        \/ HandleDisconnect(c)
        \/ CloseWs(c)
        \/ CloseDb(c)
        \/ StartSend(c)
        \/ GetSession(c)
        \/ GetQuota(c)
        \/ Deadline(c)
        \/ HttpDo(c)
        \/ ScanLine(c)
        \/ ScanEnd(c)
        \/ SendError(c)
        \/ CloseErrorChan(c)
        \/ RecvText(c)
        \/ SendText(c)
        \/ RecvError(c)
        \/ RecvNil(c)
        \/ RecvDone(c)
        \/ Decrease(c)
        \/ Timeout(c)

Spec == Init /\ [][Next]_vars

\* Two connections that handleConnect accepted for the same identity, which
\* has one request left; each got a message frame, and the upstream bodies
\* are empty.
InitPair ==
    /\ sessions     = [c \in PairIds |-> AuthTable("k1")]
    /\ users        = [u \in Identities |-> 1]
    /\ wsOpen       = [c \in PairIds |-> TRUE]
    /\ hpc          = [c \in PairIds |-> "connected"]
    /\ handler      = [c \in PairIds |-> "connect"]
    /\ authKey      = [c \in PairIds |-> "k1"]
    /\ connStatus   = [c \in PairIds |-> 200]
    /\ sendStatus   = [c \in PairIds |-> 0]
    /\ disconnected = [c \in PairIds |-> NoDisconnect]
    /\ message      = [c \in PairIds |-> ""]
    /\ userHash     = [c \in PairIds |-> NoValue]
    /\ remaining    = [c \in PairIds |-> <<>>]
    /\ doneHash     = [c \in PairIds |-> NoValue]
    /\ text         = [c \in PairIds |-> NoValue]
    /\ ctxDone      = [c \in PairIds |-> FALSE]
    /\ ppc          = [c \in PairIds |-> "none"]
    /\ currentEvent = [c \in PairIds |-> ""]
    /\ textChan     = [c \in PairIds |-> NoValue]
    /\ errorChan    = [c \in PairIds |-> <<>>]
    /\ errClosed    = [c \in PairIds |-> FALSE]
    /\ doneClosed   = [c \in PairIds |-> FALSE]
    /\ frames       = [c \in PairIds |-> <<>>]
    /\ emitted      = [c \in PairIds |-> <<>>]
    /\ term         = [c \in PairIds |-> "none"]
    /\ decr         = [c \in PairIds |-> [tried |-> 0, ok |-> 0]]
    /\ cleanup      = [c \in PairIds |-> NoCleanup]
    /\ spins        = [c \in PairIds |-> 0]
    /\ lastLine     = [c \in PairIds |-> NoLine]
    /\ ApiIdle
    /\ nlines       = MaxLines

NextPair ==
    \E c \in Conns :
        \/ StartSend(c)
        \/ GetSession(c)
        \/ GetQuota(c)
        \/ HttpDo(c)
        \/ ScanEnd(c)
        \/ SendError(c)
        \/ CloseErrorChan(c)
        \/ RecvError(c)
        \/ RecvNil(c)
        \/ RecvDone(c)
        \/ Decrease(c)
        \/ CloseWs(c)
        \/ CloseDb(c)

SpecPair == InitPair /\ [][NextPair]_vars

\* The handler goroutine is runnable whenever one of its steps is enabled and
\* the Go scheduler runs it; the upstream service, the client and the
\* producer's reads get no fairness: the response body may stall for ever.
HandlerStep(c) ==
    \/ GetSession(c) \/ GetQuota(c) \/ RecvText(c) \/ SendText(c)
    \/ RecvError(c) \/ RecvDone(c) \/ Decrease(c) \/ Timeout(c)
    \/ CloseWs(c) \/ CloseDb(c)

\* the program with every quota at MaxQuota, without fairness
SpecFull == InitFair /\ [][Next]_vars

FairSpec ==
    InitFair /\ [][Next]_vars /\ \A c \in ConnIds : WF_vars(HandlerStep(c))

\* The invocations of the $connect and default routes without the $disconnect
\* route (its only effect on them, a session lookup that fails, is an outcome
\* of GetSession and RecvDone already). The handler goroutine is scheduled
\* fairly and the invocation's deadline eventually fires; the producer
\* goroutine and the upstream are not forced.
NextRelay ==
    \E c \in Conns :
        \/ HandleConnect(c)
        \/ ClientClose(c)
        \/ CloseWs(c)
        \/ CloseDb(c)
        \/ StartSend(c)
        \/ GetSession(c)
        \/ GetQuota(c)
        \/ Deadline(c)
        \/ HttpDo(c)
        \/ ScanLine(c)
        \/ ScanEnd(c)
        \/ SendError(c)
        \/ CloseErrorChan(c)
        \/ RecvText(c)
        \/ SendText(c)
        \/ RecvError(c)
        \/ RecvNil(c)
        \/ RecvDone(c)
        \/ Decrease(c)
        \/ Timeout(c)

FairDeadlineSpec ==
    /\ InitFair /\ [][NextRelay]_vars
    /\ \A c \in ConnIds : WF_vars(HandlerStep(c)) /\ WF_vars(Deadline(c))

\* ------------------------------------------------------- the handler variant
\* The handler of src/cmd/vldl-text-search/main.go (the same code is in
\* src/unnamed/part_002): its goroutine closes textChan when it ends, its
\* decoder does not close doneChan at the end of the body, and its handlers
\* return createResponse directly, the done branch doing the cleanup itself.
\* HttpDo, ScanLine, SendError, CloseErrorChan, ClientClose and Deadline are
\* the same code; the actions below, marked V, are the ones that differ.
\* handleDisconnect of the variant changes no state.
Closed == "closed"       \* textChan[c] after close(textChan)

\* handleConnect, lines 269-287
HandleConnectV(c) ==
    /\ hpc[c] = "new"
    /\ \E k \in AuthKeys, getOk \in BOOLEAN, putOk \in BOOLEAN :
         LET hash == getUserHashFromAuth(k, getOk) IN
         /\ handler' = [handler EXCEPT ![c] = "connect"]
         /\ authKey' = [authKey EXCEPT ![c] = k]
         /\ IF hash = "error"
            THEN /\ message' = [message EXCEPT ![c] = "Failed to authenticate user"]
                 /\ Return(c, "connect", 401)
                 /\ UNCHANGED sessions
            ELSE IF ~putOk
            THEN /\ message' = [message EXCEPT ![c] = "Failed to store connection"]
                 /\ Return(c, "connect", 500)
                 /\ UNCHANGED sessions
            ELSE /\ message' = [message EXCEPT ![c] = "Connected successfully"]
                 /\ sessions' = storeConnectionInDynamoDB(sessions, c, hash)
                 /\ Return(c, "connect", 200)
    /\ UNCHANGED <<users, lastLine, apiVars, disconnected, localVars, ctxDone,
                   producerVars, frames, decr, cleanup, spins>>

\* handleSendMessage, lines 303-326: parse the body, start the goroutine,
\* create the websocket client
StartSendV(c) ==
    /\ hpc[c] = "connected"
    /\ connStatus[c] = 200
    /\ wsOpen[c]
    /\ handler' = [handler EXCEPT ![c] = "send"]
    /\ \E body \in {"ok", "bad_json"}, clientOk \in BOOLEAN :
         IF body # "ok"
         THEN /\ message' = [message EXCEPT ![c] = BodyMessage(body)]
              /\ Return(c, "send", 400)
              /\ UNCHANGED ppc
         ELSE /\ ppc' = [ppc EXCEPT ![c] = "http"]
              /\ IF clientOk
                 THEN /\ hpc' = [hpc EXCEPT ![c] = "v_select"]
                      /\ UNCHANGED <<message, sendStatus, connStatus, wsOpen>>
                 ELSE /\ message' = [message EXCEPT ![c] =
                                        "Failed to create WebSocket client"]
                      /\ Return(c, "send", 500)
    /\ UNCHANGED <<sessions, users, authKey, lastLine, apiVars, disconnected, localVars, ctxDone,
                   currentEvent, textChan, errorChan, errClosed, doneClosed,
                   emitted, term, nlines, frames, decr, cleanup, spins>>

\* callAnthropicAPI, lines 440, 484-488: scanner.Scan() returns false;
\* return scanner.Err(), or nil with doneChan left open
ScanEndV(c) ==
    /\ ppc[c] = "scan"
    /\ \E readOk \in BOOLEAN :
         IF readOk
         THEN /\ term' = [term EXCEPT ![c] = "eof"]
              /\ ppc' = [ppc EXCEPT ![c] = "ret_nil"]
         ELSE /\ term' = [term EXCEPT ![c] = "scan_error"]
              /\ ppc' = [ppc EXCEPT ![c] = "ret_err"]
    /\ UNCHANGED <<sessions, users, wsOpen, hpc, handler, authKey, lastLine, apiVars, connStatus,
                   sendStatus, disconnected, message, localVars, ctxDone,
                   currentEvent, textChan, errorChan, errClosed, doneClosed,
                   emitted, nlines, frames, decr, cleanup, spins>>

\* line 315: defer close(textChan), run when the goroutine's function ends,
\* after close(errorChan)
CloseTextChan(c) ==
    /\ ppc[c] = "exited"
    /\ textChan[c] # Closed
    /\ textChan' = [textChan EXCEPT ![c] = Closed]
    /\ UNCHANGED <<sessions, users, wsOpen, hpc, handler, authKey, lastLine, apiVars, connStatus,
                   sendStatus, disconnected, message, localVars, ctxDone, ppc,
                   currentEvent, errorChan, errClosed, doneClosed, emitted,
                   term, nlines, frames, decr, cleanup, spins>>

\* line 331: case text, ok := <-textChan, with ok true
RecvTextV(c) ==
    /\ hpc[c] = "v_select"
    /\ ppc[c] = "send"
    /\ text' = [text EXCEPT ![c] = textChan[c]]
    /\ textChan' = [textChan EXCEPT ![c] = NoValue]
    /\ ppc' = [ppc EXCEPT ![c] = "scan"]
    /\ hpc' = [hpc EXCEPT ![c] = "v_send_text"]
    /\ UNCHANGED <<sessions, users, wsOpen, handler, authKey, lastLine, apiVars, connStatus,
                   sendStatus, disconnected, message, userHash, remaining,
                   doneHash, ctxDone, currentEvent, errorChan, errClosed,
                   doneClosed, emitted, term, nlines, frames, decr, cleanup,
                   spins>>

\* lines 331-335: case text, ok := <-textChan on the closed channel: !ok,
\* return 200
RecvClosedV(c) ==
    /\ hpc[c] = "v_select"
    /\ textChan[c] = Closed
    /\ message' = [message EXCEPT ![c] = "Message processing completed"]
    /\ Return(c, "send", 200)
    /\ UNCHANGED <<sessions, users, handler, authKey, lastLine, apiVars, disconnected, localVars,
                   ctxDone, producerVars, frames, decr, cleanup, spins>>

\* lines 336-339: sendWebSocketMessage(text)
SendTextV(c) ==
    /\ hpc[c] = "v_send_text"
    /\ frames' = [frames EXCEPT ![c] = sendWebSocketMessage(@, text[c])]
    /\ \E sendOk \in TransportOutcomes(c) :
         IF sendOk
         THEN /\ hpc' = [hpc EXCEPT ![c] = "v_select"]
              /\ UNCHANGED <<message, sendStatus, connStatus, wsOpen>>
         ELSE /\ message' = [message EXCEPT ![c] =
                                "Failed to send WebSocket message"]
              /\ Return(c, "send", 500)
    /\ UNCHANGED <<sessions, users, handler, authKey, lastLine, apiVars, disconnected, localVars,
                   ctxDone, producerVars, decr, cleanup, spins>>

\* lines 340-344: case err := <-errorChan, err != nil
RecvErrorV(c) ==
    /\ hpc[c] = "v_select"
    /\ errorChan[c] # <<>>
    /\ errorChan' = [errorChan EXCEPT ![c] = Tail(@)]
    /\ message' = [message EXCEPT ![c] = "Error calling Anthropic API"]
    /\ Return(c, "send", 500)
    /\ UNCHANGED <<sessions, users, handler, authKey, lastLine, apiVars, disconnected, localVars,
                   ctxDone, ppc, currentEvent, textChan, errClosed, doneClosed,
                   emitted, term, nlines, frames, decr, cleanup, spins>>

\* lines 340-344 on the closed, empty errorChan: err is nil, the loop goes on
RecvNilV(c) ==
    /\ hpc[c] = "v_select"
    /\ errorChan[c] = <<>>
    /\ errClosed[c]
    /\ spins[c] < MaxSpins
    /\ spins' = [spins EXCEPT ![c] = @ + 1]
    /\ UNCHANGED <<sessions, users, wsOpen, hpc, handler, authKey, lastLine, apiVars, connStatus,
                   sendStatus, disconnected, message, localVars, ctxDone,
                   producerVars, frames, decr, cleanup>>

\* lines 345-350: case <-doneChan, closeWebSocketConnection
RecvDoneV(c) ==
    /\ hpc[c] = "v_select"
    /\ doneClosed[c]
    /\ \E closeOk \in TransportOutcomes(c) :
         /\ cleanup' = [cleanup EXCEPT ![c].client = "ok",
                                       ![c].close = @ + 1,
                                       ![c].closeOk = @ + (IF closeOk THEN 1 ELSE 0)]
         /\ IF closeOk
            THEN /\ wsOpen' = [wsOpen EXCEPT ![c] = FALSE]
                 /\ hpc' = [hpc EXCEPT ![c] = "v_lookup"]
                 /\ UNCHANGED <<message, sendStatus, connStatus>>
            ELSE /\ message' = [message EXCEPT ![c] =
                                   "Failed to close WebSocket connection"]
                 /\ Return(c, "send", 500)
    /\ UNCHANGED <<sessions, users, handler, authKey, lastLine, apiVars, disconnected, localVars,
                   ctxDone, producerVars, frames, decr, spins>>

\* lines 351-355: getUserHashFromConnection in the done branch
LookupV(c) ==
    /\ hpc[c] = "v_lookup"
    /\ \E getOk \in BOOLEAN :
         LET hash == getUserHashFromConnection(sessions, c, getOk) IN
         IF hash = "error"
         THEN /\ message' = [message EXCEPT ![c] = "Failed to authenticate user"]
              /\ Return(c, "send", 401)
              /\ UNCHANGED doneHash
         ELSE /\ doneHash' = [doneHash EXCEPT ![c] = hash]
              /\ hpc' = [hpc EXCEPT ![c] = "v_decrease"]
              /\ UNCHANGED <<message, sendStatus, connStatus, wsOpen>>
    /\ UNCHANGED <<sessions, users, handler, authKey, lastLine, apiVars, disconnected, userHash,
                   remaining, text, ctxDone, producerVars, frames, decr,
                   cleanup, spins>>

\* lines 356-364: decreaseRemainingRequests, removeConnectionFromDynamoDB,
\* their errors only logged, return 200
DecreaseV(c) ==
    /\ hpc[c] = "v_decrease"
    /\ \E updOk \in BOOLEAN, delOk \in BOOLEAN :
         /\ users' = IF updOk THEN decreaseRemainingRequests(users, doneHash[c])
                     ELSE users
         /\ decr' = [decr EXCEPT ![c].tried = @ + 1,
                                 ![c].ok = @ + (IF updOk THEN 1 ELSE 0)]
         /\ sessions' = IF delOk THEN removeConnectionFromDynamoDB(sessions, c)
                        ELSE sessions
         /\ cleanup' = [cleanup EXCEPT ![c].remove = @ + 1,
                                       ![c].removeOk = @ + (IF delOk THEN 1 ELSE 0)]
    /\ message' = [message EXCEPT ![c] = "Message processing completed"]
    /\ Return(c, "send", 200)
    /\ UNCHANGED <<handler, authKey, lastLine, apiVars, disconnected, localVars, ctxDone,
                   producerVars, frames, spins>>

\* lines 365-366: case <-ctx.Done()
TimeoutV(c) ==
    /\ hpc[c] = "v_select"
    /\ ctxDone[c]
    /\ message' = [message EXCEPT ![c] = "Request timeout"]
    /\ Return(c, "send", 504)
    /\ UNCHANGED <<sessions, users, handler, authKey, lastLine, apiVars, disconnected, localVars,
                   ctxDone, producerVars, frames, decr, cleanup, spins>>

NextV ==
    \E c \in Conns :
        \/ HandleConnectV(c)
        \/ ClientClose(c)
        \/ StartSendV(c)
        \/ Deadline(c)
        \/ HttpDo(c)
        \/ ScanLine(c)
        \/ ScanEndV(c)
        \/ SendError(c)
        \/ CloseErrorChan(c)
        \/ CloseTextChan(c)
        \/ RecvTextV(c)
        \/ RecvClosedV(c)
        \/ SendTextV(c)
        \/ RecvErrorV(c)
        \/ RecvNilV(c)
        \/ RecvDoneV(c)
        \/ LookupV(c)
        \/ DecreaseV(c)
        \/ TimeoutV(c)

SpecV == InitFair /\ [][NextV]_vars

\* ------------------------------------------------------------ the stream
\* The relay of src/unnamed/part_007 on a connection that stays open and
\* whose deadline does not fire: callAnthropicAPI never looks at either, so
\* what the decoder does with a body is the same without them.  The lines
\* are read with the log kept.
NextStream ==
    \E c \in Conns :
        \/ HandleConnect(c)
        \/ CloseWs(c)
        \/ CloseDb(c)
        \/ StartSend(c)
        \/ GetSession(c)
        \/ GetQuota(c)
        \/ HttpDo(c)
        \/ ReadLine(c)
        \/ ScanEnd(c)
        \/ SendError(c)
        \/ CloseErrorChan(c)
        \/ RecvText(c)
        \/ SendText(c)
        \/ RecvError(c)
        \/ RecvNil(c)
        \/ RecvDone(c)
        \/ Decrease(c)

SpecStream == InitFair /\ [][NextStream]_vars

\* ------------------------------------------------------------------ notions
IsPrefix(s, t) == Len(s) <= Len(t) /\ \A i \in 1..Len(s) : s[i] = t[i]

IsText(x) == x \in Texts

\* the text increments passed to sendWebSocketMessage by the select loop
TextFrames(c) == SelectSeq(frames[c], IsText)

\* handleSendMessage left the select loop (or never entered it) and is in
\* closeConnection or has returned
ConsumerExited(c) ==
    handler[c] = "send" /\ hpc[c] \in {"close_ws", "close_db", "returned"}

\* the select loop was left through case <-doneChan
EndedByDone(c) ==
    /\ handler[c] = "send"
    /\ \/ hpc[c] = "decrease"
       \/ hpc[c] \in {"close_ws", "close_db", "returned"} /\ message[c] = ""

\* messages of the paths that end a relay by a failure or the deadline
FailureMessages == {"Error calling Anthropic API",
                    "Failed to send WebSocket message",
                    "Failed to create WebSocket client",
                    "Request timeout"}

\* the producer has nothing for the select loop
Quiet(c) == ppc[c] # "send" /\ errorChan[c] = <<>> /\ ~doneClosed[c]

\* -------------------------------------------------------------------- claims
\* C1: at every point of a relay the text increments passed to
\* sendWebSocketMessage are a prefix of the fragments callAnthropicAPI put on
\* textChan, in the same order; once the loop is left through doneChan the
\* two sequences are equal.
C1_OrderedRelay ==
    \A c \in Conns :
        /\ IsPrefix(TextFrames(c), emitted[c])
        /\ EndedByDone(c) => TextFrames(c) = emitted[c]

C1_Witness ==
    \E c \in Conns :
        /\ EndedByDone(c)
        /\ Len(emitted[c]) >= 2
        /\ emitted[c][1] # emitted[c][2]
        /\ TextFrames(c) = emitted[c]

\* C2: a relay decrements remaining_requests by exactly 1 if and only if the
\* decoder observed message_stop: it never decrements twice, a decrement
\* implies that message_stop was read, and a relay ended by an upstream
\* failure, a client send failure or the deadline decrements nothing.
C2_DecrementIffMessageStop ==
    \A c \in Conns :
        hpc[c] = "returned" =>
            /\ decr[c].ok <= 1
            /\ decr[c].ok = 1 => term[c] = "message_stop"
            /\ message[c] \in FailureMessages => decr[c].ok = 0

\* C3: the end of the response body without message_stop does not close
\* doneChan, so the completion branch is never entered for such a stream.
C3_NoDoneAtEOF ==
    \A c \in Conns :
        term[c] = "eof" => ~doneClosed[c] /\ ~EndedByDone(c)

\* C4: WS_CONNECTIONS holds an entry for a connection exactly while it is
\* between a successful handleConnect and its closing transition: an entry
\* belongs to an authenticated connection, and none remains once
\* handleSendMessage has returned (no DeleteItem having failed).
C4_SessionIffLive ==
    \A c \in Conns :
        /\ sessions[c] # NoItem =>
               /\ authKey[c] \in AuthKeys
               /\ sessions[c] = AuthTable(authKey[c])
        /\ (hpc[c] = "returned" /\ cleanup[c].remove = cleanup[c].removeOk)
               => sessions[c] = NoItem

\* C5: on every path by which handleSendMessage returns, the removal of the
\* session record was attempted exactly once and the teardown of the
\* transport connection was attempted before the return.
C5_CleanupOnEveryPath ==
    \A c \in Conns :
        hpc[c] = "returned" =>
            /\ cleanup[c].remove = 1
            /\ cleanup[c].close >= 1

\* C6: closeConnection is partial-failure tolerant: when it has returned, the
\* removal of the session record was attempted even if creating the client or
\* closing the transport failed, and the transport teardown was attempted
\* even if the removal failed.
C6_PartialFailureTolerant ==
    \A c \in Conns :
        (hpc[c] \in {"connected", "returned"} /\ cleanup[c].client # "none") =>
            /\ (cleanup[c].client = "failed"
                \/ cleanup[c].close > cleanup[c].closeOk) => cleanup[c].remove = 1
            /\ cleanup[c].remove > cleanup[c].removeOk => cleanup[c].close = 1

\* C7: when the quota read by handleSendMessage is 0 or negative, no
\* producer is started, no upstream request is made and no text increment
\* is sent to the client.
C7_NoRelayWithoutQuota ==
    \A c \in Conns :
        (remaining[c] # <<>> /\ remaining[c][1] <= 0) =>
            /\ ppc[c] = "none"
            /\ emitted[c] = <<>>
            /\ TextFrames(c) = <<>>

C7_Witness ==
    \E c \in Conns :
        /\ remaining[c] # <<>>
        /\ remaining[c][1] <= 0
        /\ hpc[c] = "returned"
        /\ frames[c] = <<"You have no remaining tokens available">>

\* C8: of two concurrent relays of one identity that has a single request
\* left, at most one observes quota > 0 and starts streaming, and
\* remaining_requests never becomes negative.
C8_NoOverdraw ==
    /\ \A u \in Identities : users[u] >= 0
    /\ \A c, d \in Conns :
           (c # d /\ userHash[c] = userHash[d] /\ ppc[c] # "none")
               => ppc[d] = "none"

\* C9: once the select loop of handleSendMessage has been left, the producer
\* goroutine is never blocked on its send to textChan (nothing receives
\* from textChan any more, so a producer blocked there never terminates).
C9_ProducerNotStranded ==
    \A c \in Conns :
        ConsumerExited(c) => ppc[c] # "send"

\* C10: when ctx.Done() is closed while the loop waits in select, the loop
\* eventually stops waiting, and when the producer offers nothing (no
\* increment, no error, no done signal) it leaves by the timeout path,
\* closeConnection with "Request timeout".
C10_DeadlineEndsWait ==
    /\ \A c \in ConnIds :
           (ctxDone[c] /\ hpc[c] = "select") ~> (hpc[c] # "select")
    /\ [][\A c \in ConnIds :
             (hpc[c] = "select" /\ Quiet(c) /\ hpc'[c] # "select")
                 => (ctxDone[c] /\ hpc'[c] = "close_ws"
                     /\ message'[c] = "Request timeout")]_vars

C10_Witness ==
    \E c \in Conns :
        /\ hpc[c] = "close_ws"
        /\ message[c] = "Request timeout"
        /\ ppc[c] \in {"http", "scan"}
        /\ Quiet(c)


\* the credential is empty or has no item in AUTH
Unresolvable(k) == k \in AuthKeys /\ AuthTable(k) = NoItem

AuthFailureMessages == {"Authentication required", "Failed to authenticate user"}

EndedByError(c) ==
    /\ handler[c] = "send"
    /\ hpc[c] = "returned"
    /\ message[c] = "Error calling Anthropic API"

\* C12: when the data line of a content_block_delta event is not valid JSON
\* and the relay ends through errorChan, the increments emitted before are
\* all forwarded, the error message is passed to sendWebSocketMessage after
\* them, no quota decrement is attempted and the removal of the session
\* record is attempted.
C12_BadDeltaJson ==
    \A c \in Conns :
        (EndedByError(c) /\ term[c] = "json_error"
         /\ currentEvent[c] = "content_block_delta") =>
            /\ TextFrames(c) = emitted[c]
            /\ frames[c] = emitted[c] \o <<message[c]>>
            /\ decr[c].tried = 0
            /\ users[userHash[c]] = remaining[c][1]
            /\ cleanup[c].remove = 1


\* the $disconnect route can be invoked for c
Disconnectable(c) == connStatus[c] = 200 /\ ~wsOpen[c]

\* C13: handleDisconnect removes the session record whatever the state of
\* the connection and of its relay (a step that deletes the record and
\* returns 200 is possible whenever the route is invoked); it returns 200
\* and touches neither the quota store nor another connection's record; and
\* once the record is gone a further handleDisconnect changes neither the
\* session store, nor the quota store, nor the returned outcome.
C13_DisconnectIdempotent ==
    /\ [](\A c \in Conns :
            Disconnectable(c) =>
                ENABLED (/\ HandleDisconnect(c)
                         /\ sessions'[c] = NoItem
                         /\ disconnected'[c].status = 200))
    /\ [][\A c \in Conns :
            HandleDisconnect(c) =>
               /\ disconnected'[c].done
               /\ disconnected'[c].status = 200
               /\ users' = users
               /\ sessions'[c] = NoItem \/ sessions' = sessions
               /\ \A d \in Conns \ {c} : sessions'[d] = sessions[d]
               /\ (disconnected[c].done /\ sessions[c] = NoItem) =>
                      /\ sessions' = sessions
                      /\ disconnected'[c].status = disconnected[c].status]_vars

\* handleDisconnect ran during a relay, the record is gone and a further
\* call is possible
C13_Witness ==
    \E c \in Conns :
        /\ disconnected[c].done
        /\ disconnected[c].status = 200
        /\ sessions[c] = NoItem
        /\ Disconnectable(c)
        /\ hpc[c] = "select"

\* messages of the paths of handleSendMessage that refuse the message before
\* the go statement (lines 88-170)
EarlyMessages ==
    {"Failed to retrieve user", "Failed to check remaining tokens",
     "You have no remaining tokens available"}
    \cup {BodyMessage(b) : b \in Bodies \ {"ok"}}

\* handleSendMessage refused the message of c before the go statement
RefusedEarly(c) == handler[c] = "send" /\ message[c] \in EarlyMessages

EndedBySendFailure(c) ==
    handler[c] = "send" /\ message[c] = "Failed to send WebSocket message"

\* C15: when sendWebSocketMessage fails for a text increment, that increment
\* is the last one passed to sendWebSocketMessage, no quota decrement is
\* attempted, and once handleSendMessage returned both the close of the
\* connection and the removal of the session record were attempted.
C15_SendFailureCleansUp ==
    \A c \in Conns :
        EndedBySendFailure(c) =>
            /\ hpc[c] \in {"close_ws", "close_db", "returned"}
            /\ TextFrames(c) # <<>>
            /\ TextFrames(c)[Len(TextFrames(c))] = text[c]
            /\ IsPrefix(TextFrames(c), emitted[c])
            /\ decr[c].tried = 0
            /\ hpc[c] = "returned" =>
                   cleanup[c].close = 1 /\ cleanup[c].remove = 1


\* the select loop of c can receive nil from the closed, drained errorChan
OnlyNilError(c) == hpc[c] = "select" /\ errClosed[c] /\ errorChan[c] = <<>>

\* C16: every handleSendMessage invocation eventually returns when the
\* handler goroutine is scheduled fairly and the deadline eventually fires;
\* and whenever the loop can receive nil from the closed errorChan, doneChan
\* is closed too, so the loop has an exit besides the deadline and does not
\* spin for ever.
C16_SendReturns ==
    /\ \A c \in ConnIds : (handler[c] = "send") ~> (hpc[c] = "returned")
    /\ [](\A c \in ConnIds : OnlyNilError(c) => doneClosed[c])

\* a relay that returned after receiving nil from the closed errorChan
C16_Witness ==
    \E c \in Conns :
        /\ handler[c] = "send"
        /\ hpc[c] = "returned"
        /\ spins[c] >= 1
        /\ errClosed[c]


\* C17: handleConnect returns 200 only for a credential that resolved and
\* whose session record was stored (it never went through closeConnection),
\* and handleSendMessage returns 200 only for a relay that left the loop
\* through doneChan; every failure path returns a status of 400 or more.
C17_StatusReflectsOutcome ==
    \A c \in Conns :
        /\ connStatus[c] = 200 => ~Unresolvable(authKey[c])
        /\ (handler[c] = "connect" /\ connStatus[c] = 200) => message[c] = ""
        /\ sendStatus[c] = 200 => EndedByDone(c)
        /\ (hpc[c] = "returned" /\ ~EndedByDone(c)) => sendStatus[c] >= 400


\* C18: the done branch of the select loop runs only after every text the
\* decoder emitted was passed to sendWebSocketMessage: when doneChan is
\* closed no increment is pending on textChan, whenever the loop can then
\* choose the done case the forwarded texts are all the emitted ones, and
\* so they are during and after the done branch.
C18_DoneAfterAllForwarded ==
    \A c \in Conns :
        /\ doneClosed[c] => (ppc[c] # "send" /\ textChan[c] = NoValue)
        /\ (doneClosed[c] /\ hpc[c] = "select") => TextFrames(c) = emitted[c]
        /\ (doneClosed[c] /\ hpc[c] = "send_text") =>
               emitted[c] = Append(TextFrames(c), text[c])
        /\ (hpc[c] = "decrease" \/ EndedByDone(c)) =>
               (doneClosed[c] /\ TextFrames(c) = emitted[c])

\* the done branch runs after a text was emitted and message_stop was read
C18_Witness ==
    \E c \in Conns :
        /\ hpc[c] = "decrease"
        /\ term[c] = "message_stop"
        /\ Len(emitted[c]) >= 1
        /\ TextFrames(c) = emitted[c]


\* the text increments the select loop of c received from textChan
Received(c) == Len(TextFrames(c)) + (IF hpc[c] = "send_text" THEN 1 ELSE 0)

\* C20: textChan is unbuffered: the number of increments the decoder
\* produced and the loop did not receive is 1 while the decoder is blocked
\* in the send of line 337 and 0 otherwise, so increment k+1 is not produced
\* before increment k was received; textChan holds a value only while the
\* decoder is blocked in that send, never while it goes on.
C20_Backpressure ==
    \A c \in Conns :
        /\ Len(emitted[c]) - Received(c) = (IF ppc[c] = "send" THEN 1 ELSE 0)
        /\ (textChan[c] # NoValue) <=> (ppc[c] = "send")
        /\ ppc[c] = "send" => textChan[c] = emitted[c][Len(emitted[c])]

\* the decoder is blocked with the second increment after the first one
\* was received and forwarded
C20_Witness ==
    \E c \in Conns :
        /\ ppc[c] = "send"
        /\ hpc[c] = "select"
        /\ Len(emitted[c]) = 2
        /\ Len(TextFrames(c)) = 1


\* the done branch of the variant ran to its end for c: the transport close,
\* the quota decrement and the session removal were all attempted
CompletedV(c) ==
    cleanup[c].close = 1 /\ decr[c].tried = 1 /\ cleanup[c].remove = 1

\* C19: in the variant whose goroutine closes textChan, a relay whose
\* upstream ended with message_stop and whose handleSendMessage returned
\* 200 went through the done branch: the transport close, the quota
\* decrement and the session removal were attempted.
C19_StopCompletesV ==
    \A c \in Conns :
        (handler[c] = "send" /\ hpc[c] = "returned" /\ sendStatus[c] = 200
         /\ term[c] = "message_stop") => CompletedV(c)


C22_AtMostOneDecrement ==
    \A c \in Conns :
        /\ decr[c].tried <= 1
        /\ decr[c].ok <= decr[c].tried
        /\ decr[c].tried = 1 =>
               (doneClosed[c] /\ hpc[c] \in {"close_ws", "close_db", "returned"})
        /\ hpc[c] \in {"get_session", "get_quota", "select", "send_text", "decrease"}
               => decr[c].tried = 0

\* a relay that returned after one decrement attempt, having also received
\* nil from the closed errorChan
C22_Witness ==
    \E c \in Conns :
        /\ decr[c].tried = 1
        /\ spins[c] >= 1
        /\ Len(emitted[c]) >= 1
        /\ hpc[c] = "returned"


\* C23: in the variant, once the done branch closed the transport, a failure
\* of the session lookup or of the quota decrement is not escalated: the
\* removal of the session record is still attempted and handleSendMessage
\* returns 200.
C23_DoneBranchFailuresNotEscalatedV ==
    \A c \in Conns :
        (handler[c] = "send" /\ hpc[c] = "returned" /\ cleanup[c].closeOk = 1) =>
            /\ cleanup[c].remove = 1
            /\ sendStatus[c] = 200


\* handleConnect returned 200 for c and nothing happened on c since
Accepted(c) ==
    /\ handler[c] = "connect"
    /\ hpc[c] = "connected"
    /\ connStatus[c] = 200
    /\ ~disconnected[c].done

\* C24: a stored session record always holds the identity the presented
\* credential resolves to, and when handleConnect resolved the credential
\* it returns success only after it stored that record: a failed PutItem
\* never leaves an accepted connection without a record.
C24_AcceptedAfterStore ==
    \A c \in Conns :
        /\ sessions[c] # NoItem => sessions[c] = AuthTable(authKey[c])
        /\ (Accepted(c) /\ message[c] \notin AuthFailureMessages) =>
               /\ message[c] # "Failed to store connection"
               /\ sessions[c] = AuthTable(authKey[c])


\* ------------------------------------------------------------------- C25
\* lines 327-331: the events that are only logged
Informational == {"message_start", "content_block_start", "ping",
                  "content_block_stop", "message_delta"}

\* what a line leaves alone when the loop only goes on to the next line:
\* nothing is emitted, the stream is neither ended nor failed
LineIgnored(c) ==
    /\ emitted' = emitted
    /\ textChan' = textChan
    /\ doneClosed' = doneClosed
    /\ errorChan' = errorChan
    /\ term' = term
    /\ ppc'[c] = "scan"

\* C25: a data line with a decodable payload met under message_start,
\* content_block_start, ping, content_block_stop or message_delta emits no
\* increment and does not end or abort the stream: the loop goes on with the
\* same currentEvent.
C25_InformationalEventsIgnored ==
    [][\A c \in Conns : \A line \in Lines :
         (/\ ScanLineOn(c, line)
          /\ line.kind = "data"
          /\ line.val # "bad_json"
          /\ currentEvent[c] \in Informational)
         => (LineIgnored(c) /\ currentEvent' = currentEvent)]_vars

\* each of the five events met a data line with a text in it and the loop
\* went on: here under ping, after an increment was emitted
C25_Witness ==
    \E c \in Conns :
        /\ lastLine[c].kind = "data"
        /\ lastLine[c].val \in Texts
        /\ lastLine[c].event = "ping"
        /\ Len(emitted[c]) = 1
        /\ ppc[c] = "scan"


\* ------------------------------------------------------------------- C26
\* lines 334-335: the payloads of a content_block_delta whose type
\* assertions fail: no "delta" object, or no string "text" in it
NoTextPayloads == {"no_delta", "no_text"}

\* C26: a content_block_delta whose payload has no delta object, or whose
\* delta has no string text, is skipped silently: no increment, no error, no
\* end of the stream, and the loop goes on under the same currentEvent.
C26_DeltaWithoutTextSkipped ==
    [][\A c \in Conns : \A line \in Lines :
         (/\ ScanLineOn(c, line)
          /\ line.kind = "data"
          /\ line.val \in NoTextPayloads
          /\ currentEvent[c] = "content_block_delta")
         => (LineIgnored(c) /\ currentEvent' = currentEvent)]_vars

\* a content_block_delta without a delta object was met and skipped after
\* an increment was emitted, and the loop reads on
C26_Witness ==
    \E c \in Conns :
        /\ lastLine[c].kind = "data"
        /\ lastLine[c].val = "no_delta"
        /\ lastLine[c].event = "content_block_delta"
        /\ Len(emitted[c]) = 1
        /\ term[c] = "none"
        /\ ppc[c] = "scan"


\* ------------------------------------------------------------------- C27
\* lines 326-351: the tags the switch has a case for
Recognized == Informational \cup {"content_block_delta", "message_stop"}

\* C27: an event whose tag is none of the seven recognized ones never fails
\* the stream: whatever its data line contains, the line emits nothing,
\* neither ends nor fails the stream, and the loop goes on.
C27_UnrecognizedEventIgnored ==
    [][\A c \in Conns : \A line \in Lines :
         (/\ ScanLineOn(c, line)
          /\ line.kind = "data"
          /\ currentEvent[c] \in EventNames \ Recognized)
         => LineIgnored(c)]_vars


\* ------------------------------------------------------------------- C28
\* lines 304-305, 323-324, 355-357: the ways callAnthropicAPI returns an error
FailureTerms == {"http_error", "json_error", "scan_error"}

\* lines 205-207: the loop took the error from errorChan
ErrorTaken(c) == handler[c] = "send" /\ message[c] = "Error calling Anthropic API"

\* the errors sent on errorChan so far: the one still buffered and the one
\* the loop took
ErrorsSent(c) == Len(errorChan[c]) + (IF ErrorTaken(c) THEN 1 ELSE 0)

\* C28: when decoding fails (client.Do fails, a data line is not decodable,
\* the scanner fails), doneChan is never closed and, once the goroutine is past
\* its send, exactly one error was sent on errorChan, the one callAnthropicAPI
\* returned; without a failure no error is ever sent.  Done and error exclude
\* each other.
C28_ErrorXorDone ==
    \A c \in Conns :
        /\ term[c] \in FailureTerms =>
              /\ ~doneClosed[c]
              /\ ppc[c] \in {"ret_err", "ret_nil", "exited"}
              /\ ppc[c] = "ret_err" => ErrorsSent(c) = 0
              /\ ppc[c] \in {"ret_nil", "exited"} => ErrorsSent(c) = 1
              /\ errorChan[c] \in {<<>>, <<term[c]>>}
        /\ term[c] \notin FailureTerms => ErrorsSent(c) = 0
        /\ doneClosed[c] => term[c] \in {"message_stop", "eof"}

\* a data line of a recognized event was not decodable after an increment:
\* the loop took the one error and the goroutine ended without a done signal
C28_Witness ==
    \E c \in Conns :
        /\ term[c] = "json_error"
        /\ lastLine[c].event = "content_block_delta"
        /\ lastLine[c].val = "bad_json"
        /\ Len(emitted[c]) = 1
        /\ ppc[c] = "exited"
        /\ EndedByError(c)
        /\ ~doneClosed[c]


\* ------------------------------------------------------------------- C29
\* C29: a data line is dispatched under the event line read last, which stays
\* in force over any number of data lines: an event line only sets
\* currentEvent; every data line with a text under content_block_delta puts
\* its own text on textChan, in the order of the lines, and keeps
\* currentEvent; a data line read before any event line is handled as under
\* a tag the switch does not know (nothing emitted, no done signal); a line
\* with neither prefix changes nothing.
C29_DispatchUnderLastEvent ==
    [][\A c \in Conns : \A line \in Lines :
         ScanLineOn(c, line) =>
           /\ line.kind = "event" =>
                 /\ LineIgnored(c)
                 /\ currentEvent'[c] = line.val
           /\ line.kind = "data" =>
                 /\ currentEvent' = currentEvent
                 /\ (currentEvent[c] = "content_block_delta" /\ line.val \in Texts) =>
                       /\ emitted'[c] = Append(emitted[c], line.val)
                       /\ textChan'[c] = line.val
                       /\ ppc'[c] = "send"
                       /\ doneClosed' = doneClosed /\ term' = term
                 /\ currentEvent[c] = "" =>
                       /\ DecodeLine("", line) =
                            [DecodeLine("other_event", line) EXCEPT !.event = ""]
                       /\ emitted' = emitted /\ textChan' = textChan
                       /\ doneClosed' = doneClosed
                       /\ line.val # "bad_json" => LineIgnored(c)
           /\ line.kind = "other" =>
                 /\ LineIgnored(c)
                 /\ currentEvent' = currentEvent]_vars

\* one event line and two data lines after it: the second data line was
\* dispatched under content_block_delta too and its text is the second
\* increment
C29_Witness ==
    \E c \in Conns :
        /\ nlines = 3
        /\ lastLine[c].kind = "data"
        /\ lastLine[c].event = "content_block_delta"
        /\ emitted[c] = <<"a", "b">>
        /\ textChan[c] = "b"
        /\ ppc[c] = "send"


\* ------------------------------------------------------------------- C30
\* C30: once doneChan is closed it stays closed and the scanner loop takes
\* no further step: no line is read and the end of the body is not handled
\* again, so no execution reaches a close(doneChan) a second time and no
\* increment is emitted after the done signal.
C30_DoneOnceThenSilent ==
    [][\A c \in Conns :
         doneClosed[c] =>
           /\ doneClosed'[c]
           /\ emitted'[c] = emitted[c]
           /\ textChan'[c] = textChan[c]
           /\ ~ScanEnd(c)
           /\ \A line \in Lines : ~ScanLineOn(c, line)]_vars

\* message_stop ended the stream while the body could hold further lines;
\* the goroutine ended and the relay completed
C30_Witness ==
    \E c \in Conns :
        /\ doneClosed[c]
        /\ term[c] = "message_stop"
        /\ lastLine[c].event = "message_stop"
        /\ nlines < MaxLines
        /\ ppc[c] = "exited"
        /\ hpc[c] = "returned"
        /\ decr[c].tried = 1


\* ------------------------------------------------------------------- C31
\* C31: the goroutine never blocks on errorChan and never panics at it: when
\* it is about to send, the buffer is empty and the channel open, so the send
\* completes whatever the loop does, also after the loop has returned; at
\* most one error is ever sent; once errorChan is closed the goroutine has
\* ended, so nothing is sent after the close.
C31_ErrorSendNeverBlocks ==
    \A c \in Conns :
        /\ ppc[c] = "ret_err" =>
              /\ errorChan[c] = <<>>
              /\ ~errClosed[c]
              /\ ENABLED SendError(c)
        /\ ErrorsSent(c) <= 1
        /\ errClosed[c] => ppc[c] = "exited"
        /\ ppc[c] = "ret_nil" => ~errClosed[c]

\* the loop returned on the deadline before the stream failed: the error was
\* sent into the buffer all the same and the goroutine ended
C31_Witness ==
    \E c \in Conns :
        /\ handler[c] = "send"
        /\ hpc[c] = "returned"
        /\ message[c] = "Request timeout"
        /\ term[c] \in FailureTerms
        /\ errorChan[c] = <<term[c]>>
        /\ errClosed[c]
        /\ ppc[c] = "exited"


\* ================================================================ getUser
\* The user API (tarot-api-user-get): getUser reads the user record, adds the
\* tokens of the user's active orders, marks these orders processed and
\* writes the whole record back.  The user records exist and have
\* refill_interval 0, so the refill of lines 277-281 is never due.  Every
\* invocation is a process; its steps are cut at its DynamoDB calls.

UserStart == 2      \* remaining_requests of every user record at the start
MaxDecr   == 1      \* decrements of completed relays while getUser runs

RECURSIVE SumTokens(_)
\* getProductTokensBatch (lines 97-140): the tokens of the products of a set
\* of orders, each order with a product of its own
SumTokens(S) ==
    IF S = {} THEN 0
    ELSE LET o == CHOOSE x \in S : TRUE IN OrderTokens(o) + SumTokens(S \ {o})

\* getUser returns createResponse(code, ...)
GetUserReturn(g, code) ==
    [userApi EXCEPT !.gpc[g] = "returned", !.gStatus[g] = code]

\* lines 214-244: the key is checked and resolved in AUTH
GetUserAuth(g) ==
    /\ gpc[g] = "start"
    /\ \E key \in AuthKeys, ok \in BOOLEAN :
         userApi' =
            IF key = "" THEN GetUserReturn(g, 400)
            ELSE IF ~ok THEN GetUserReturn(g, 500)
            ELSE IF AuthTable(key) = NoItem THEN GetUserReturn(g, 404)
            ELSE [userApi EXCEPT !.gHash[g] = AuthTable(key),
                                 !.gpc[g] = "read_user"]
    /\ UNCHANGED <<users, connVars, nlines, orders, otpApi, payApi, fnCall>>

\* lines 246-275: GetItem on USERS and the unmarshalling of the record
GetUserRead(g) ==
    /\ gpc[g] = "read_user"
    /\ \E ok \in BOOLEAN :
         userApi' =
            IF ok
            THEN [userApi EXCEPT !.gUser[g] = users[userApi.gHash[g]],
                                 !.gpc[g] = "query"]
            ELSE GetUserReturn(g, 500)
    /\ UNCHANGED <<users, connVars, nlines, orders, otpApi, payApi, fnCall>>

\* lines 142-173 (called at line 284): the orders of the user with
\* active = activeStatus
GetUserQuery(g) ==
    /\ gpc[g] = "query"
    /\ \E ok \in BOOLEAN :
         userApi' =
            IF ok
            THEN [userApi EXCEPT
                    !.gSeen[g] = {o \in OrderIds :
                                    /\ orders[o].created
                                    /\ OrderUser(o) = userApi.gHash[g]
                                    /\ orders[o].active = activeStatus},
                    !.gpc[g] = "tokens"]
            ELSE GetUserReturn(g, 500)
    /\ UNCHANGED <<users, connVars, nlines, orders, otpApi, payApi, fnCall>>

\* lines 291-298: getProductTokensBatch, and the tokens added to the local
\* copy of the record when there are any
GetUserTokens(g) ==
    /\ gpc[g] = "tokens"
    /\ \E ok \in BOOLEAN :
         userApi' =
            IF ok
            THEN LET tokens == SumTokens(userApi.gSeen[g]) IN
                 IF tokens > 0
                 THEN [userApi EXCEPT !.gUser[g] = @ + tokens,
                                      !.gpc[g] = "mark"]
                 ELSE [userApi EXCEPT !.gpc[g] = "put"]
            ELSE GetUserReturn(g, 500)
    /\ UNCHANGED <<users, connVars, nlines, orders, otpApi, payApi, fnCall>>

\* lines 183-200: one goroutine of markOrdersAsProcessed, its UpdateItem
\* SET active = :inactive without a condition
MarkOrder(g, o) ==
    /\ gpc[g] = "mark"
    /\ o \in userApi.gSeen[g] \ userApi.gDone[g]
    /\ \E ok \in BOOLEAN :
         IF ok
         THEN /\ orders' = [orders EXCEPT ![o].active = inactiveStatus]
              /\ userApi' = [userApi EXCEPT !.gDone[g] = @ \cup {o},
                                            !.processed = @ \cup {o}]
         ELSE /\ userApi' = [userApi EXCEPT !.gDone[g] = @ \cup {o},
                                            !.gFailed[g] = TRUE]
              /\ UNCHANGED orders
    /\ UNCHANGED <<users, connVars, nlines, otpApi, payApi, fnCall>>

\* lines 203-211 and 299-303: wg.Wait(), then an error when some update
\* failed, which ends getUser with 500
MarkJoin(g) ==
    /\ gpc[g] = "mark"
    /\ userApi.gDone[g] = userApi.gSeen[g]
    /\ userApi' = IF userApi.gFailed[g]
                  THEN GetUserReturn(g, 500)
                  ELSE [userApi EXCEPT !.gpc[g] = "put"]
    /\ UNCHANGED <<users, connVars, nlines, orders, otpApi, payApi, fnCall>>

\* lines 307-322: PutItem of the whole record
GetUserPut(g) ==
    /\ gpc[g] = "put"
    /\ \E ok \in BOOLEAN :
         IF ok
         THEN /\ users' = [users EXCEPT
                             ![userApi.gHash[g]] = userApi.gUser[g]]
              /\ userApi' = GetUserReturn(g, 200)
         ELSE /\ userApi' = GetUserReturn(g, 500)
              /\ UNCHANGED users
    /\ UNCHANGED <<connVars, nlines, orders, otpApi, payApi, fnCall>>

\* the done branch of a relay of user u1 (handleSendMessage, line 218):
\* decreaseRemainingRequests succeeds
RelayDecrease ==
    /\ relayDecr < MaxDecr
    /\ users' = decreaseRemainingRequests(users, "u1")
    /\ userApi' = [userApi EXCEPT !.relayDecr = @ + 1]
    /\ UNCHANGED <<connVars, nlines, orders, otpApi, payApi, fnCall>>

\* any subset of the orders is active at the start
InitUser ==
    /\ Fresh({})
    /\ users = [u \in Identities |-> UserStart]
    /\ IdleOtp({}) /\ IdlePay({}) /\ IdleFn
    /\ IdleUserApi(GetUserCalls)
    /\ \E act \in SUBSET OrderIds :
         orders = [o \in OrderIds |->
                     [created |-> TRUE,
                      active |-> IF o \in act THEN activeStatus ELSE inactiveStatus,
                      updated_at |-> "set"]]

NextUser ==
    \/ \E g \in GetUserCalls :
         \/ GetUserAuth(g)
         \/ GetUserRead(g)
         \/ GetUserQuery(g)
         \/ GetUserTokens(g)
         \/ \E o \in OrderIds : MarkOrder(g, o)
         \/ MarkJoin(g)
         \/ GetUserPut(g)
    \/ RelayDecrease

SpecUser == InitUser /\ [][NextUser]_vars

\* no getUser invocation is under way
UserApiQuiet == \A g \in GetUserCalls : gpc[g] \in {"start", "returned"}

\* ------------------------------------------------------------------- C32
\* C32: a decrement a completed relay applied is never lost to a concurrent
\* getUser: once no getUser is under way, and no order was credited, the
\* remaining_requests of u1 is its value at the start less the decrements.
C32_DecrementNotLost ==
    (UserApiQuiet /\ processed = {}) =>
        users["u1"] = UserStart - relayDecr

\* ------------------------------------------------------------------- C33
\* C33: an order is marked processed exactly when its tokens are stored in
\* the user record, and is credited once: once no getUser is under way (also
\* after calls that failed part way), and without any relay, the
\* remaining_requests of u1 is its value at the start plus the tokens of the
\* orders that were marked processed.
C33_OrdersCreditedOnce ==
    (UserApiQuiet /\ relayDecr = 0) =>
        users["u1"] = UserStart + SumTokens(processed)


\* ============================================================== verifyOTP
\* OTP verification (the verifyOTP of lines 560-683; the one of lines 413-503
\* takes the same steps): one stored code of one identifier, and invocations
\* that present this identifier with the right or a wrong code.

\* verifyOTP returns createResponse(code, ...)
VerifyReturn(v, code) ==
    [otpApi EXCEPT !.vpc[v] = "returned", !.vStatus[v] = code]

\* lines 579-606: Query for the active code of the identifier, and the
\* comparison with the code presented
VerifyQuery(v) ==
    /\ vpc[v] = "start"
    /\ \E ok \in BOOLEAN, right \in BOOLEAN :
         otpApi' =
            IF ~ok THEN VerifyReturn(v, 500)
            ELSE IF ~otpActive THEN VerifyReturn(v, 400)
            ELSE IF ~right THEN VerifyReturn(v, 400)
            ELSE [otpApi EXCEPT !.vpc[v] = "deactivate"]
    /\ UNCHANGED <<users, connVars, nlines, orders, userApi, payApi, fnCall>>

\* lines 608-622: UpdateItem SET Active = false, without a condition
VerifyDeactivate(v) ==
    /\ vpc[v] = "deactivate"
    /\ \E ok \in BOOLEAN :
         otpApi' =
            IF ok
            THEN [otpApi EXCEPT !.otpActive = FALSE, !.vpc[v] = "check"]
            ELSE VerifyReturn(v, 500)
    /\ UNCHANGED <<users, connVars, nlines, orders, userApi, payApi, fnCall>>

\* lines 624-682: the age of the code is checked, then an auth key is
\* generated, stored in AUTH and returned
VerifyIssue(v) ==
    /\ vpc[v] = "check"
    /\ IF otpExpired
       THEN otpApi' = VerifyReturn(v, 400)
       ELSE \E generated \in BOOLEAN, stored \in BOOLEAN :
              otpApi' =
                 IF generated /\ stored
                 THEN [VerifyReturn(v, 200) EXCEPT
                         !.issued = @ \cup {[call |-> v, late |-> otpExpired]}]
                 ELSE VerifyReturn(v, 500)
    /\ UNCHANGED <<users, connVars, nlines, orders, userApi, payApi, fnCall>>

\* line 626: time passes, the code becomes older than 300 seconds
OtpAges ==
    /\ ~otpExpired
    /\ otpApi' = [otpApi EXCEPT !.otpExpired = TRUE]
    /\ UNCHANGED <<users, connVars, nlines, orders, userApi, payApi, fnCall>>

InitOtp ==
    /\ Fresh({})
    /\ users = [u \in Identities |-> UserStart]
    /\ orders = <<>>
    /\ IdleUserApi({}) /\ IdlePay({}) /\ IdleFn
    /\ IdleOtp(VerifyCalls)

NextOtp ==
    \/ \E v \in VerifyCalls :
         \/ VerifyQuery(v)
         \/ VerifyDeactivate(v)
         \/ VerifyIssue(v)
    \/ OtpAges

SpecOtp == InitOtp /\ [][NextOtp]_vars

\* ------------------------------------------------------------------- C34
\* C34: a stored code yields at most one auth key: whatever the interleaving
\* of the verifyOTP calls that present it, at most one of them stores a key
\* and returns 200; the code is deactivated before its age is looked at, and
\* a code found older than 300 seconds yields no key.
C34_OneKeyPerCode ==
    /\ Cardinality(issued) <= 1
    /\ Cardinality({v \in VerifyCalls : vStatus[v] = 200}) <= 1
    /\ \A k \in issued : ~k.late
    /\ \A v \in VerifyCalls : vpc[v] = "check" => ~otpActive


\* ===================================================== payment verification
\* Orders are written by createOrder of the payment creation Lambda and
\* verified by handlePaymentVerification (tarot-api-payment-verify), which
\* asks Stripe for the checkout session and activates the order.

\* ORDERS holds no item for the order
NoOrder == [created |-> FALSE, active |-> inactiveStatus, updated_at |-> "none"]

\* the ConditionExpression of activateOrder (lines 131-133 of the
\* verification Lambda):
\* attribute_not_exists(updated_at) OR updated_at = NULL
CanActivate(order) == order.updated_at = "none"

\* createOrder (payment creation, lines 154-185): PutItem of a new order
\* with Active = 0 and CreatedAt = UpdatedAt = now
CreateOrder(o) ==
    /\ ~orders[o].created
    /\ orders' = [orders EXCEPT ![o] =
           [created |-> TRUE, active |-> inactiveStatus, updated_at |-> "set"]]
    /\ UNCHANGED <<users, connVars, nlines, userApi, otpApi, payApi, fnCall>>

\* handlePaymentVerification returns createResponse(code, ...)
PayReturn(pay, p, code) ==
    [pay EXCEPT !.pvpc[p] = "returned", !.pvStatus[p] = code]

\* lines 179-200: getOrderByStripeID, and the answer for an order that is
\* active already
PayLookup(p) ==
    /\ pvpc[p] = "start"
    /\ \E o \in OrderIds, ok \in BOOLEAN :
         LET asked == [payApi EXCEPT !.pvOrder[p] = o]
             found == [asked EXCEPT !.pvActive[p] = orders[o].active]
         IN  payApi' =
                IF ~ok
                THEN PayReturn([asked EXCEPT !.pvFault[p] = TRUE], p, 404)
                ELSE IF ~orders[o].created
                THEN PayReturn(asked, p, 404)
                ELSE IF orders[o].active = activeStatus
                THEN PayReturn(found, p, 200)
                ELSE [found EXCEPT !.pvpc[p] = "stripe"]
    /\ UNCHANGED <<users, connVars, nlines, orders, userApi, otpApi, fnCall>>

\* lines 202-219: session.Get and the payment status
PayStripe(p) ==
    /\ pvpc[p] = "stripe"
    /\ \E ok \in BOOLEAN, paid \in BOOLEAN :
         LET called == [payApi EXCEPT !.pvCalls[p].stripe = @ + 1]
         IN  payApi' =
                IF ~ok
                THEN PayReturn([called EXCEPT !.pvFault[p] = TRUE], p, 500)
                ELSE IF ~paid
                THEN PayReturn(called, p, 400)
                ELSE [called EXCEPT !.pvPaid[p] = TRUE,
                                    !.pvpc[p] = "activate"]
    /\ UNCHANGED <<users, connVars, nlines, orders, userApi, otpApi, fnCall>>

\* lines 221-237 with activateOrder (lines 121-152): the conditional
\* UpdateItem SET active = 1, updated_at = now
PayActivate(p) ==
    /\ pvpc[p] = "activate"
    /\ \E ok \in BOOLEAN :
         IF ~ok
         THEN /\ payApi' =
                    PayReturn([payApi EXCEPT !.pvFault[p] = TRUE], p, 500)
              /\ UNCHANGED orders
         ELSE IF ~CanActivate(orders[pvOrder[p]])
         THEN /\ payApi' = PayReturn(payApi, p, 500)
              /\ UNCHANGED orders
         ELSE /\ orders' = [orders EXCEPT ![pvOrder[p]] =
                     [@ EXCEPT !.active = activeStatus, !.updated_at = "set"]]
              /\ payApi' =
                    PayReturn([payApi EXCEPT !.pvCalls[p].update = @ + 1],
                              p, 200)
    /\ UNCHANGED <<users, connVars, nlines, userApi, otpApi, fnCall>>

\* no order exists yet
InitPay ==
    /\ Fresh({})
    /\ users = [u \in Identities |-> UserStart]
    /\ orders = [o \in OrderIds |-> NoOrder]
    /\ IdleUserApi({}) /\ IdleOtp({}) /\ IdleFn
    /\ IdlePay(PayCalls)

NextPay ==
    \/ \E o \in OrderIds : CreateOrder(o)
    \/ \E p \in PayCalls :
         \/ PayLookup(p)
         \/ PayStripe(p)
         \/ PayActivate(p)

SpecPay == InitPay /\ [][NextPay]_vars

\* ------------------------------------------------------------------- C35
\* C35: a verification of an order createOrder wrote, whose checkout session
\* Stripe reports paid and whose calls to DynamoDB and Stripe do not fail
\* for reasons of their own, activates the order and returns 200; a
\* verification that finds the order active returns 200 without asking
\* Stripe and without updating the order.
C35_PaidOrderActivated ==
    \A p \in PayCalls :
        pvpc[p] = "returned" =>
          /\ (pvPaid[p] /\ ~pvFault[p]) =>
                /\ pvStatus[p] = 200
                /\ orders[pvOrder[p]].active = activeStatus
          /\ pvActive[p] = activeStatus =>
                /\ pvStatus[p] = 200
                /\ pvCalls[p] = NoCalls


\* ======================================================== pure functions
\* Functions without state are applied to an argument drawn at the start.

MaxKids == 3        \* largest NumKids and longest KidsAges
Ages    == {3, 9}   \* the ages in KidsAges

\* the NumKids and KidsAges of a TripAdvisorRequest
KidsRequests ==
    [NumKids : (0 - 1)..MaxKids,
     KidsAges : UNION {[1..n -> Ages] : n \in 0..MaxKids}]

\* the validator of a request that accepts any KidsAges when NumKids is not
\* positive
validateKidsAgesRequiredIfNumKids_lenient(request) ==
    IF request.NumKids > 0
    THEN Len(request.KidsAges) = request.NumKids
    ELSE TRUE

\* lines 13-19
validateKidsAgesRequiredIfNumKids(request) ==
    IF request.NumKids > 0
    THEN Len(request.KidsAges) = request.NumKids
    ELSE Len(request.KidsAges) = 0

\* the validator is called on the request
ValidateKids ==
    /\ fnOut = <<>>
    /\ fnCall' = [fnCall EXCEPT
                     !.out = <<validateKidsAgesRequiredIfNumKids(fnArg)>>]
    /\ UNCHANGED <<users, connVars, nlines, orders, userApi, otpApi, payApi>>

InitKids ==
    /\ Fresh({})
    /\ users = [u \in Identities |-> UserStart]
    /\ orders = <<>>
    /\ IdleUserApi({}) /\ IdleOtp({}) /\ IdlePay({})
    /\ \E request \in KidsRequests : fnCall = [arg |-> request, out |-> <<>>]

NextKids == ValidateKids

SpecKids == InitKids /\ [][NextKids]_vars

\* ------------------------------------------------------------------- C36
\* C36: validateKidsAgesRequiredIfNumKids accepts a request exactly when
\* KidsAges has NumKids entries for NumKids > 0, and no entry for NumKids
\* of 0 or less.
C36_KidsAgesMatchNumKids ==
    fnOut # <<>> =>
        (fnOut[1] <=>
            \/ fnArg.NumKids > 0 /\ Len(fnArg.KidsAges) = fnArg.NumKids
            \/ fnArg.NumKids <= 0 /\ fnArg.KidsAges = <<>>)

\* a request without kids that lists an age was refused
C36_Witness ==
    /\ fnOut = <<FALSE>>
    /\ fnArg.NumKids = 0
    /\ Len(fnArg.KidsAges) = 1


\* ------------------------------------------------------ formatWithCommas
\* Strings are sequences of one-character strings.

MaxAmount == 1234   \* the arguments run from -MaxAmount to MaxAmount
\* arguments with more digits
LargeAmounts == {123456, 0 - 123456, 1234567, 0 - 1234567}
Amounts == ((0 - MaxAmount)..MaxAmount) \cup LargeAmounts

DigitChars == <<"0", "1", "2", "3", "4", "5", "6", "7", "8", "9">>

RECURSIVE NatDigits(_)
\* the decimal digits of a natural number
NatDigits(n) ==
    IF n < 10 THEN <<DigitChars[n + 1]>>
    ELSE Append(NatDigits(n \div 10), DigitChars[(n % 10) + 1])

\* strconv.Itoa and strconv.FormatInt(_, 10)
Itoa(n) == IF n < 0 THEN <<"-">> \o NatDigits(0 - n) ELSE NatDigits(n)

RECURSIVE CommaLoop(_, _, _)
\* the loop of lines 302-307 of the variant handler from index i on, with
\* out built so far: a comma goes before in[i] when i is not 0 and the
\* number of characters left is a multiple of 3
CommaLoop(in, i, out) ==
    IF i = Len(in) THEN out
    ELSE CommaLoop(in, i + 1,
            (IF i # 0 /\ (Len(in) - i) % 3 = 0 THEN Append(out, ",") ELSE out)
                \o <<in[i + 1]>>)

\* formatWithCommas of the variant handler (part_006 lines 295-309)
formatWithCommasLoop(n) ==
    LET in == Itoa(n) IN
    IF Len(in) <= 3 THEN in ELSE CommaLoop(in, 0, <<>>)

\* formatWithCommas of the handler (lines 516-518)
formatWithCommas(n) == Itoa(n)

RECURSIVE GroupDigits(_)
\* the digits with a comma between every group of three counted from the
\* right
GroupDigits(ds) ==
    IF Len(ds) <= 3 THEN ds
    ELSE GroupDigits(SubSeq(ds, 1, Len(ds) - 3))
            \o <<",">> \o SubSeq(ds, Len(ds) - 2, Len(ds))

\* the string the commaFormat template function is to return
Grouped(n) ==
    IF n < 0 THEN <<"-">> \o GroupDigits(NatDigits(0 - n))
    ELSE GroupDigits(NatDigits(n))

\* lines 246-248 (lines 182-184 in the variant): the template function
\* commaFormat is called, in both handlers
CommaFormat ==
    /\ fnOut = <<>>
    /\ fnCall' = [fnCall EXCEPT
                     !.out = <<formatWithCommas(fnArg),
                               formatWithCommasLoop(fnArg)>>]
    /\ UNCHANGED <<users, connVars, nlines, orders, userApi, otpApi, payApi>>

InitFormat ==
    /\ Fresh({})
    /\ users = [u \in Identities |-> UserStart]
    /\ orders = <<>>
    /\ IdleUserApi({}) /\ IdleOtp({}) /\ IdlePay({})
    /\ \E n \in Amounts : fnCall = [arg |-> n, out |-> <<>>]

NextFormat == CommaFormat

SpecFormat == InitFormat /\ [][NextFormat]_vars

\* ------------------------------------------------------------------- C37
\* C37: for every integer, negative ones included, formatWithCommas returns
\* the decimal digits with a comma between every group of three digits
\* counted from the right and none elsewhere, and the two handlers return the
\* same string.
C37_CommaFormat ==
    fnOut # <<>> =>
        /\ fnOut[1] = Grouped(fnArg)
        /\ fnOut[2] = Grouped(fnArg)
        /\ fnOut[1] = fnOut[2]

====
